---------------------------- MODULE Spec2Model ----------------------------
(***************************************************************************)
(* A model of the mind-model repository: the time-driven CellEnsembleRT    *)
(* (spike schedule, decay, pairwise Hebbian weights), the Concept          *)
(* activation cycle (cue injection, one-hop spread, lateral inhibition),   *)
(* the engram (de)serialisation and the concept algebra (merge, intersect, *)
(* subtract, bind_relation).                                               *)
(*                                                                         *)
(* Numbers.  Python floats are modelled by exact rationals <<n, d>> with   *)
(* d > 0 and gcd(n, d) = 1, without rounding, except for the activations   *)
(* that FeatureEnsemble.decay works on: their order of rounding matters,   *)
(* and they are binary64 numbers.                                          *)
(* CellEnsembleRT weights are measured in units of 1e-6, so the prune      *)
(* threshold 1e-6 of the source is the rational 1.  Time stamps are        *)
(* integer ticks.                                                          *)
(***************************************************************************)
EXTENDS Integers, Sequences, FiniteSets, TLC

(***************************************************************************)
(* Exact rational arithmetic (the float operators of the source).          *)
(***************************************************************************)
RECURSIVE GCD(_, _)
GCD(a, b) == IF b = 0 THEN a ELSE GCD(b, a % b)

IAbs(x) == IF x < 0 THEN -x ELSE x

Norm(n, d) ==
    LET s == IF d < 0 THEN -1 ELSE 1
        g == GCD(IAbs(n), IAbs(d))
    IN  <<(s * n) \div g, (s * d) \div g>>

RZero == <<0, 1>>
ROne == <<1, 1>>
RInt(i) == <<i, 1>>
\* The operands are brought to their least common denominator, and the
\* factors of a product are cancelled crosswise first, to keep the terms small.
RAdd(p, q) ==
    LET g == GCD(p[2], q[2])
    IN  Norm(p[1] * (q[2] \div g) + q[1] * (p[2] \div g), (p[2] \div g) * q[2])
RNeg(p) == <<-p[1], p[2]>>
RSub(p, q) == RAdd(p, RNeg(q))
RMul(p, q) ==
    LET a == Norm(p[1], q[2])
        b == Norm(q[1], p[2])
    IN  Norm(a[1] * b[1], a[2] * b[2])
RDiv(p, q) == RMul(p, Norm(q[2], q[1]))
RLt(p, q) ==
    LET g == GCD(p[2], q[2])
    IN  p[1] * (q[2] \div g) < q[1] * (p[2] \div g)
RLe(p, q) == ~RLt(q, p)
RMax(p, q) == IF RLt(p, q) THEN q ELSE p
RMin(p, q) == IF RLt(q, p) THEN q ELSE p
RAbs(p) == <<IAbs(p[1]), p[2]>>

\* Sum of the values of a function over a finite set of arguments.
RECURSIVE RSum(_, _)
RSum(f, S) ==
    IF S = {} THEN RZero
    ELSE LET x == CHOOSE y \in S : TRUE IN RAdd(f[x], RSum(f, S \ {x}))

\* Integer square root (the largest r with r * r <= n).
RECURSIVE ISqrtFrom(_, _)
ISqrtFrom(n, r) == IF (r + 1) * (r + 1) > n THEN r ELSE ISqrtFrom(n, r + 1)
ISqrt(n) == ISqrtFrom(n, 0)

Range(s) == {s[i] : i \in DOMAIN s}

(***************************************************************************)
(* Binary64 arithmetic (the float operators of the source where a claim    *)
(* depends on their rounding).  A natural number of any size is a sequence *)
(* of digits to the base 2^15, lowest first, without high zeros; a float   *)
(* is a sign, such a number m of exactly 53 bits (or zero) and an exponent *)
(* e, and stands for (-1)^neg * m * 2^e.  Exponents stay far from the      *)
(* range where binary64 overflows or loses precision to subnormals.        *)
(***************************************************************************)
SignificandBits == 53
DigitBits == 15
Base == 2 ^ DigitBits

RECURSIVE BTrim(_)
BTrim(a) ==
    IF a = << >> \/ a[Len(a)] # 0 THEN a ELSE BTrim(SubSeq(a, 1, Len(a) - 1))

RECURSIVE BFromInt(_)
BFromInt(n) == IF n = 0 THEN << >> ELSE <<n % Base>> \o BFromInt(n \div Base)

\* a + b + c, with c the carry.
RECURSIVE BAddC(_, _, _)
BAddC(a, b, c) ==
    IF a = << >> /\ b = << >> THEN (IF c > 0 THEN <<c>> ELSE << >>)
    ELSE LET x == IF a = << >> THEN 0 ELSE a[1]
             y == IF b = << >> THEN 0 ELSE b[1]
             t == x + y + c
         IN  <<t % Base>> \o BAddC(IF a = << >> THEN a ELSE Tail(a),
                                   IF b = << >> THEN b ELSE Tail(b),
                                   t \div Base)
BAdd(a, b) == BAddC(a, b, 0)

\* a - b - c for a >= b + c, with c the borrow; high zeros are kept.
RECURSIVE BSubC(_, _, _)
BSubC(a, b, c) ==
    IF a = << >> THEN << >>
    ELSE LET y == IF b = << >> THEN 0 ELSE b[1]
             t == a[1] - y - c
         IN  <<t % Base>> \o BSubC(Tail(a), IF b = << >> THEN b ELSE Tail(b),
                                   IF t < 0 THEN 1 ELSE 0)
BSub(a, b) == BTrim(BSubC(a, b, 0))

RECURSIVE BLessFrom(_, _, _)
BLessFrom(a, b, i) ==
    IF i = 0 THEN FALSE
    ELSE IF a[i] # b[i] THEN a[i] < b[i]
    ELSE BLessFrom(a, b, i - 1)
BLess(a, b) ==
    IF Len(a) # Len(b) THEN Len(a) < Len(b) ELSE BLessFrom(a, b, Len(a))

\* a * x + c for one digit x.
RECURSIVE BMulDigit(_, _, _)
BMulDigit(a, x, c) ==
    IF a = << >> THEN (IF c > 0 THEN <<c>> ELSE << >>)
    ELSE LET t == a[1] * x + c
         IN  <<t % Base>> \o BMulDigit(Tail(a), x, t \div Base)

RECURSIVE BMulFrom(_, _, _)
BMulFrom(a, b, i) ==
    IF i > Len(b) THEN << >>
    ELSE BAdd(BMulDigit(a, b[i], 0), <<0>> \o BMulFrom(a, b, i + 1))
BMul(a, b) == BTrim(BMulFrom(a, b, 1))

\* a \div d and a % d for 0 < d <= Base: the digits of the quotient, lowest
\* first, and the remainder.
RECURSIVE BDivFrom(_, _, _)
BDivFrom(a, i, d) ==
    IF i > Len(a) THEN [q |-> << >>, r |-> 0]
    ELSE LET up == BDivFrom(a, i + 1, d)
             t == up.r * Base + a[i]
         IN  [q |-> <<t \div d>> \o up.q, r |-> t % d]
BDiv(a, d) == LET x == BDivFrom(a, 1, d) IN [q |-> BTrim(x.q), r |-> x.r]

Zeros(k) == [i \in 1..k |-> 0]
BShiftLeft(a, k) ==
    IF a = << >> THEN << >>
    ELSE Zeros(k \div DigitBits) \o BMulDigit(a, 2 ^ (k % DigitBits), 0)
BShiftRight(a, k) ==
    IF k \div DigitBits >= Len(a) THEN << >>
    ELSE BDiv(SubSeq(a, k \div DigitBits + 1, Len(a)), 2 ^ (k % DigitBits)).q
BitLen(a) ==
    IF a = << >> THEN 0
    ELSE DigitBits * (Len(a) - 1)
            + (CHOOSE k \in 1..DigitBits :
                  2 ^ (k - 1) <= a[Len(a)] /\ a[Len(a)] < 2 ^ k)

FZero == [neg |-> FALSE, m |-> << >>, e |-> 0]

\* Rounding to the nearest float, ties to the even significand.
FRoundOf(neg, m, e) ==
    LET len == BitLen(m)
        k == len - SignificandBits
        q == BShiftRight(m, k)
        rem == BSub(m, BShiftLeft(q, k))
        half == BShiftLeft(<<1>>, k - 1)
        up == BLess(half, rem) \/ (rem = half /\ q[1] % 2 = 1)
        r == IF up THEN BAdd(q, <<1>>) ELSE q
    IN  IF len = 0 THEN [neg |-> neg, m |-> << >>, e |-> 0]
        ELSE IF k <= 0 THEN [neg |-> neg, m |-> BShiftLeft(m, -k), e |-> e + k]
        ELSE IF BitLen(r) > SignificandBits
             THEN [neg |-> neg, m |-> BShiftRight(r, 1), e |-> e + k + 1]
        ELSE [neg |-> neg, m |-> r, e |-> e + k]
\* The operands are evaluated before their digits are worked on.
FRound(neg, m, e) == CHOOSE r \in {FRoundOf(neg, x, e) : x \in {m}} : TRUE

\* The float nearest to n / d (a literal such as 0.1), 0 < d <= Base.
FFromRatio(n, d) ==
    LET a == BShiftLeft(BFromInt(IF n < 0 THEN -n ELSE n), 90)
        x == BDiv(a, d)
        sticky == IF x.r > 0 THEN <<1>> ELSE << >>
    IN  FRound(n < 0, BAdd(BShiftLeft(x.q, 1), sticky), -91)
FOne == FFromRatio(1, 1)

FNeg(p) == [p EXCEPT !.neg = ~p.neg]
\* x == y and x < y of Python floats (-0.0 == 0.0).
FEq(p, q) == p.m = q.m /\ p.e = q.e /\ (p.neg = q.neg \/ p.m = << >>)
FMagLess(p, q) ==
    IF p.m = << >> \/ q.m = << >> THEN q.m # << >>
    ELSE IF p.e # q.e THEN p.e < q.e
    ELSE BLess(p.m, q.m)
FLess(p, q) ==
    IF p.m = << >> /\ q.m = << >> THEN FALSE
    ELSE IF p.m = << >> THEN ~q.neg
    ELSE IF q.m = << >> THEN p.neg
    ELSE IF p.neg # q.neg THEN p.neg
    ELSE IF p.neg THEN FMagLess(q, p) ELSE FMagLess(p, q)

FMulOf(p, q) == FRound(p.neg # q.neg, BMul(p.m, q.m), p.e + q.e)
FMul(p, q) == CHOOSE r \in {FMulOf(x, y) : x \in {p}, y \in {q}} : TRUE
FAddOf(p, q) ==
    LET e0 == IF p.e < q.e THEN p.e ELSE q.e
        a == BShiftLeft(p.m, p.e - e0)
        b == BShiftLeft(q.m, q.e - e0)
    IN  IF p.m = << >> THEN q
        ELSE IF q.m = << >> THEN p
        ELSE IF p.neg = q.neg THEN FRound(p.neg, BAdd(a, b), e0)
        ELSE IF BLess(a, b) THEN FRound(q.neg, BSub(b, a), e0)
        ELSE IF a = b THEN FZero
        ELSE FRound(p.neg, BSub(a, b), e0)
FAdd(p, q) == CHOOSE r \in {FAddOf(x, y) : x \in {p}, y \in {q}} : TRUE
FSub(p, q) == FAdd(p, FNeg(q))

(***************************************************************************)
(* Bounds of the model.                                                    *)
(***************************************************************************)
MaxTime == 3
MaxDt == 2
MaxSpikes == 2
MaxEns == 2
MaxLinks == 2
MaxCalls == 2
MaxAlgLinks == 1
MaxRels == 2
MaxPatternSpikes == 6
MaxWrites == 1

(***************************************************************************)
(* CellEnsembleRT                                                          *)
(***************************************************************************)
VARIABLES
    units,             \* CellEnsembleRT.units: set of unit keys
    scheduled,         \* CellEnsembleRT._scheduled: time -> list of events
    weights,           \* CellEnsembleRT.weights: ordered pair -> weight
    now,               \* CellEnsembleRT._t
    active_last_step,  \* CellEnsembleRT._active_last_step
    registry,          \* CellEnsembleRT.registry: "none" or a UnitStore
    max_weight,        \* CellEnsembleRT.max_weight (in units of 1e-6)
    fireCount,         \* history: spike id -> times it has been fired
    rtCall             \* history: the last call and what it returned

rtVars == <<units, scheduled, weights, now, active_last_step, registry, max_weight,
            fireCount, rtCall>>

VARIABLES
    pool,              \* the driver's concepts: slot ("A", "B") -> Concept
    result,            \* the Concept an algebra operation returned, or NoConcept
    cCall,             \* history: the last Concept call, its inputs and outcome
    nCalls,            \* history: number of dynamics calls made so far
    heap               \* the containers (lists, dicts) as Python objects

cVars == <<pool, result, cCall, nCalls, heap>>

\* Unit keys, in the lexicographic order Python compares them in.
UnitKeys == <<"x", "y">>
KeySet == Range(UnitKeys)
KeyRank(k) == CHOOSE i \in DOMAIN UnitKeys : UnitKeys[i] = k
KeyLess(a, b) == KeyRank(a) < KeyRank(b)

\* Strengths handed to schedule_spike: below 0, inside [0, 1], above 1.
StrengthInputs == {<<-1, 2>>, <<1, 2>>, <<2, 1>>}

\* The instance's plasticity parameters (weights in units of 1e-6).
eta_hebb == <<4, 1>>
decay == <<1, 2>>
\* max_weight the instance is constructed with: a cap, and a negative one.
MaxWeightInputs == {<<6, 1>>, <<-2, 1>>}
PruneBelow == <<1, 1>>

\* UnitStore contents: unit key -> vector (feature_unit.py).
StoreVectors == [k \in KeySet |-> IF k = "x" THEN <<3, 4>> ELSE <<4, 3>>]

Dot(u, v) == LET f == [i \in DOMAIN u |-> RInt(u[i] * v[i])]
             IN  RSum(f, DOMAIN u)[1]

\* UnitStore.cosine over vectors whose norm is an integer.
StoreCosine(a, b) ==
    LET va == StoreVectors[a]
        vb == StoreVectors[b]
        na == ISqrt(Dot(va, va))
        nb == ISqrt(Dot(vb, vb))
    IN  IF na > 0 /\ nb > 0 THEN Norm(Dot(va, vb), na * nb) ELSE RZero

\* A strength stored as given.
ClampStrengthMutNone(strength) == strength
\* schedule_spike: s = max(0.0, min(1.0, strength)).
ClampStrength(strength) == RMax(RZero, RMin(ROne, strength))

ScheduleSpike(tt, key, strength) ==
    /\ Cardinality(DOMAIN fireCount) < MaxSpikes
    /\ LET id == Cardinality(DOMAIN fireCount) + 1
           ev == [key |-> key, s |-> ClampStrength(strength), id |-> id]
           old == IF tt \in DOMAIN scheduled THEN scheduled[tt] ELSE <<>>
       IN  /\ units' = units \cup {key}
           /\ scheduled' = [ts \in DOMAIN scheduled \cup {tt} |->
                               IF ts = tt THEN Append(old, ev) ELSE scheduled[ts]]
           /\ fireCount' = [i \in DOMAIN fireCount \cup {id} |->
                               IF i = id THEN 0 ELSE fireCount[i]]
           /\ rtCall' = [op |-> "schedule_spike", dt |-> 0, ret |-> {}]
    /\ UNCHANGED <<weights, now, active_last_step, registry, max_weight>>
    /\ UNCHANGED cVars

\* _hebb_increment(a, b).
HebbIncrement(a, b) ==
    IF registry # "none"
    THEN LET sim == RMax(RZero, StoreCosine(a, b))
         IN  RMul(eta_hebb, RAdd(<<1, 2>>, RMul(<<1, 2>>, sim)))
    ELSE eta_hebb

\* The test of activate_step's scan: t0 < ts <= t1.
DueMutClosed(ts, t0, t1) == t0 <= ts /\ ts <= t1
Due(ts, t0, t1) == t0 < ts /\ ts <= t1

\* The schedule after `for ts in to_delete: del self._scheduled[ts]`.
Unschedule(sch, to_delete) == [ts \in DOMAIN sch \ to_delete |-> sch[ts]]

\* A step without decay.
DecayedMutSkipped(w) == w
\* A decay that keeps every weight, however small.
DecayedMutNoPrune(w) == [k \in DOMAIN w |-> RMul(w[k], decay)]
\* "Decay": every weight times decay, then pruned when |w| < 1e-6.
Decayed(w) ==
    LET m == [k \in DOMAIN w |-> RMul(w[k], decay)]
    IN  [k \in {j \in DOMAIN m : ~RLt(RAbs(m[j]), PruneBelow)} |-> m[k]]

\* A key that keeps the order the pair was met in.
PairKeyMutAsMet(a, b) == <<a, b>>
\* The canonical key of a co-fired pair: (a, b) if a < b else (b, a).
PairKey(a, b) == IF KeyLess(a, b) THEN <<a, b>> ELSE <<b, a>>

\* A Hebbian update without the cap at max_weight.
HebbedMutNoCap(w, fired_now) ==
    LET pairs == {PairKey(p[1], p[2]) :
                     p \in {q \in fired_now \X fired_now : q[1] # q[2]}}
        old(k) == IF k \in DOMAIN w THEN w[k] ELSE RZero
    IN  [k \in DOMAIN w \cup pairs |->
            IF k \in pairs
            THEN RAdd(old(k), HebbIncrement(k[1], k[2]))
            ELSE w[k]]

\* "Hebbian on co-activated units": each pair i < j of list(fired_now) once.
Hebbed(w, fired_now) ==
    LET pairs == {PairKey(p[1], p[2]) :
                     p \in {q \in fired_now \X fired_now : q[1] # q[2]}}
        old(k) == IF k \in DOMAIN w THEN w[k] ELSE RZero
    IN  [k \in DOMAIN w \cup pairs |->
            IF k \in pairs
            THEN RMin(RAdd(old(k), HebbIncrement(k[1], k[2])), max_weight)
            ELSE w[k]]

ActivateStep(dt) ==
    /\ now + dt <= MaxTime
    /\ LET t0 == now
           t1 == now + dt
           to_delete == {ts \in DOMAIN scheduled : Due(ts, t0, t1)}
           firedEv == UNION {Range(scheduled[ts]) : ts \in to_delete}
           fired_now == {e.key : e \in firedEv}
       IN  /\ scheduled' = Unschedule(scheduled, to_delete)
           /\ weights' = Hebbed(Decayed(weights), fired_now)
           /\ active_last_step' = fired_now
           /\ now' = t1
           /\ fireCount' = [i \in DOMAIN fireCount |->
                               IF \E e \in firedEv : e.id = i
                               THEN fireCount[i] + 1 ELSE fireCount[i]]
           /\ rtCall' = [op |-> "activate_step", dt |-> dt, ret |-> fired_now]
    /\ UNCHANGED <<units, registry, max_weight>>
    /\ UNCHANGED cVars

\* The registry the instance is constructed with.
RegistryInputs == {"none", "UnitStore"}

RTInitParams(registries, max_weights) ==
    /\ units = {}
    /\ scheduled = << >>
    /\ weights = << >>
    /\ now = 0
    /\ active_last_step = {}
    /\ registry \in registries
    /\ max_weight \in max_weights
    /\ fireCount = << >>
    /\ rtCall = [op |-> "init", dt |-> 0, ret |-> {}]
RTInitWith(registries) == RTInitParams(registries, {<<6, 1>>})
RTInit == RTInitWith(RegistryInputs)

\* schedule_pattern: schedule_spike for each (t, k, s) of spikes in turn.
RECURSIVE SchedulePatternFrom(_, _, _)
SchedulePatternFrom(st, spikes, i) ==
    IF i > Len(spikes) THEN st
    ELSE LET tt == spikes[i][1]
             id == Cardinality(DOMAIN st.fireCount) + 1
             ev == [key |-> spikes[i][2], s |-> ClampStrength(spikes[i][3]),
                    id |-> id]
             old == IF tt \in DOMAIN st.scheduled THEN st.scheduled[tt] ELSE <<>>
         IN  SchedulePatternFrom(
                [units |-> st.units \cup {spikes[i][2]},
                 scheduled |-> [ts \in DOMAIN st.scheduled \cup {tt} |->
                                  IF ts = tt THEN Append(old, ev)
                                  ELSE st.scheduled[ts]],
                 fireCount |-> [j \in DOMAIN st.fireCount \cup {id} |->
                                  IF j = id THEN 0 ELSE st.fireCount[j]]],
                spikes, i + 1)

\* Spike patterns: both units at one time, or one unit alone.
PatternInputs ==
    {<<<<tt, "x", ROne>>, <<tt, "y", ROne>>>> : tt \in 1..MaxTime}
       \cup {<<<<tt, "y", ROne>>>> : tt \in 1..MaxTime}

SchedulePattern(spikes) ==
    /\ Cardinality(DOMAIN fireCount) + Len(spikes) <= MaxPatternSpikes
    /\ \E st \in {SchedulePatternFrom([units |-> units, scheduled |-> scheduled,
                                        fireCount |-> fireCount], spikes, 1)} :
          /\ units' = st.units
          /\ scheduled' = st.scheduled
          /\ fireCount' = st.fireCount
    /\ rtCall' = [op |-> "schedule_pattern", dt |-> 0, ret |-> {}]
    /\ UNCHANGED <<weights, now, active_last_step, registry, max_weight>>
    /\ UNCHANGED cVars


(***************************************************************************)
(* Concept, FeatureEnsemble, RelationshipEdge                              *)
(*                                                                         *)
(* A Python dict is modelled with its insertion order: ensembles_by_id is  *)
(* the sequence of the ensembles in insertion order (one per ensemble_id), *)
(* an ensemble's links is the sequence of <<target id, weight>> in         *)
(* insertion order (one per target).  UUIDs are small naturals; uuid4() is *)
(* the least natural not yet used by any ensemble.                         *)
(***************************************************************************)
NoConcept == [concept_id |-> -1]
\* No container is followed as an object.
NoHeap == [store |-> << >>, roots |-> << >>, writes |-> 0]
NoneId == -1

\* uuid4() of the two driver concepts and of a derived concept.
IdA == 161
IdB == 162
IdR == 163
\* A concept that is in no slot, and an ensemble identity that is in no concept.
IdOther == 204
IdDangling == 221

\* Concept.__init__ (metadata or {"version": "3.0"})
DefaultMetadata == [version |-> "3.0"]
NewConcept(cid, name, description, metadata, gain, thr) ==
    [concept_id |-> cid, name |-> name, description |-> description,
     metadata |-> IF DOMAIN metadata = {} THEN DefaultMetadata ELSE metadata,
     ensembles_by_id |-> << >>, ensembles_by_name |-> << >>,
     relationships |-> << >>,
     inhibition_gain |-> gain, activation_threshold |-> thr]

\* FeatureEnsemble(name, modality, vector, description) with a fresh identity.
NewEnsemble(id, name, modality, vector, description) ==
    [ensemble_id |-> id, name |-> name, modality |-> modality,
     vector |-> vector, description |-> description,
     activation |-> RZero, links |-> << >>]

EnsSeq(c) == c.ensembles_by_id
EnsIds(c) == {EnsSeq(c)[i].ensemble_id : i \in DOMAIN EnsSeq(c)}
EnsIndex(c, id) == CHOOSE i \in DOMAIN EnsSeq(c) : EnsSeq(c)[i].ensemble_id = id
EnsById(c, id) == EnsSeq(c)[EnsIndex(c, id)]
NameSet(c) == DOMAIN c.ensembles_by_name

\* dict[key] = value on an insertion-ordered dict of <<key, value>> pairs.
DictSet(d, k, v) ==
    IF \E i \in DOMAIN d : d[i][1] = k
    THEN [i \in DOMAIN d |-> IF d[i][1] = k THEN <<k, v>> ELSE d[i]]
    ELSE Append(d, <<k, v>>)
DictHas(d, k) == \E i \in DOMAIN d : d[i][1] = k
DictGet(d, k, dflt) ==
    IF DictHas(d, k) THEN d[CHOOSE i \in DOMAIN d : d[i][1] = k][2] ELSE dflt
DictKeys(d) == {d[i][1] : i \in DOMAIN d}

\* Concept.add_ensemble
AddEnsembleOp(c, e) ==
    [c EXCEPT
        !.ensembles_by_id =
            IF e.ensemble_id \in EnsIds(c)
            THEN [i \in DOMAIN @ |-> IF @[i].ensemble_id = e.ensemble_id
                                     THEN e ELSE @[i]]
            ELSE Append(@, e),
        !.ensembles_by_name =
            [n \in DOMAIN @ \cup {e.name} |->
                IF n = e.name THEN e.ensemble_id ELSE @[n]]]

\* Concept.get_ensemble: the identity found, or NoneId for None.
GetEnsemble(c, name) ==
    IF name \in NameSet(c) /\ c.ensembles_by_name[name] \in EnsIds(c)
    THEN c.ensembles_by_name[name]
    ELSE NoneId

\* FeatureEnsemble.add_link
AddLinkOp(e, target_id, weight) ==
    [e EXCEPT !.links =
        DictSet(@, target_id, RAdd(DictGet(@, target_id, RZero), weight))]

\* Concept.add_relationship
AddRelationshipOp(c, relation_type, target, description) ==
    [c EXCEPT !.relationships =
        Append(@, [relation_type |-> relation_type,
                   target_concept_id |-> target,
                   description |-> description])]

SetEnsemble(c, e) ==
    [c EXCEPT !.ensembles_by_id[EnsIndex(c, e.ensemble_id)] = e]
SetActivation(c, id, a) ==
    [c EXCEPT !.ensembles_by_id[EnsIndex(c, id)].activation = a]
Activations(c) == [id \in EnsIds(c) |-> EnsById(c, id).activation]

\* A cosine that takes incompatible vectors for equal ones.
CosineMutIncompatibleOne(a, b) ==
    IF Len(a) = 0 \/ Len(b) = 0 \/ Len(a) # Len(b) THEN ROne
    ELSE LET na == ISqrt(Dot(a, a))
             nb == ISqrt(Dot(b, b))
         IN  IF na = 0 \/ nb = 0 THEN RZero ELSE Norm(Dot(a, b), na * nb)
\* FeatureEnsemble._cosine over vectors whose norm is an integer.
Cosine(a, b) ==
    IF Len(a) = 0 \/ Len(b) = 0 \/ Len(a) # Len(b) THEN RZero
    ELSE LET na == ISqrt(Dot(a, a))
             nb == ISqrt(Dot(b, b))
         IN  IF na = 0 \/ nb = 0 THEN RZero ELSE Norm(Dot(a, b), na * nb)


(***************************************************************************)
(* Concept.stimulate, stage by stage                                       *)
(***************************************************************************)
\* 1) Direct activation: for name, vec in cues.items().
RECURSIVE DirectActivation(_, _, _, _)
DirectActivation(c, cues, gain, i) ==
    IF i > Len(cues) THEN c
    ELSE LET id == GetEnsemble(c, cues[i][1])
             c2 == IF id = NoneId THEN c
                   ELSE LET ens == EnsById(c, id)
                        IN  SetActivation(c, id,
                               RAdd(ens.activation,
                                    RMul(gain, Cosine(ens.vector, cues[i][2]))))
         IN  DirectActivation(c2, cues, gain, i + 1)

\* delta = {eid: 0.0 for eid in self.ensembles_by_id}
InitDelta(c) == [i \in DOMAIN EnsSeq(c) |-> <<EnsSeq(c)[i].ensemble_id, RZero>>]

\* for t_id, w in s.links.items(): delta[t_id] = delta.get(t_id, 0.0) + s.activation * w
RECURSIVE LinkDeltas(_, _, _, _)
LinkDeltas(delta, act, links, j) ==
    IF j > Len(links) THEN delta
    ELSE LinkDeltas(DictSet(delta, links[j][1],
                            RAdd(DictGet(delta, links[j][1], RZero),
                                 RMul(act, links[j][2]))),
                    act, links, j + 1)

\* for s_id, s in self.ensembles_by_id.items(): skip when s.activation <= 0.0
RECURSIVE SourceDeltas(_, _, _)
SourceDeltas(delta, c, i) ==
    IF i > Len(EnsSeq(c)) THEN delta
    ELSE LET s == EnsSeq(c)[i]
         IN  SourceDeltas(IF RLe(s.activation, RZero) THEN delta
                          ELSE LinkDeltas(delta, s.activation, s.links, 1),
                          c, i + 1)

\* for t_id, d in delta.items(): self.ensembles_by_id[t_id].activation += d
\* (a key that is no ensemble raises KeyError where the loop stands).
RECURSIVE ApplyDelta(_, _, _)
ApplyDelta(c, delta, k) ==
    IF k > Len(delta) THEN [c |-> c, status |-> "ok"]
    ELSE IF delta[k][1] \notin EnsIds(c) THEN [c |-> c, status |-> "KeyError"]
    ELSE ApplyDelta(SetActivation(c, delta[k][1],
                        RAdd(EnsById(c, delta[k][1]).activation, delta[k][2])),
                    delta, k + 1)

\* A spread that accumulates in place, in iteration order.
RECURSIVE InPlaceLinks(_, _, _, _)
InPlaceLinks(c, sid, links, j) ==
    IF j > Len(links) THEN c
    ELSE InPlaceLinks(
            IF links[j][1] \notin EnsIds(c) THEN c
            ELSE SetActivation(c, links[j][1],
                    RAdd(EnsById(c, links[j][1]).activation,
                         RMul(EnsById(c, sid).activation, links[j][2]))),
            sid, links, j + 1)
RECURSIVE InPlaceSources(_, _)
InPlaceSources(c, i) ==
    IF i > Len(EnsSeq(c)) THEN c
    ELSE LET s == EnsSeq(c)[i]
         IN  InPlaceSources(IF RLe(s.activation, RZero) THEN c
                            ELSE InPlaceLinks(c, s.ensemble_id, s.links, 1),
                            i + 1)
SpreadMutInPlace(c) == [c |-> InPlaceSources(c, 1), status |-> "ok"]

\* 2) One-step spread.
Spread(c) == ApplyDelta(c, SourceDeltas(InitDelta(c), c, 1), 1)

\* total <= 1e-9, for a rational whose terms fit 32 bits.
LeTiny(p) == p[1] <= 0 \/ (p[1] <= 2 /\ p[1] * 1000000000 <= p[2])

\* 3) Concept._lateral_inhibition
\* total and denom of _lateral_inhibition
InhibitionTotal(c) ==
    LET pos == [id \in EnsIds(c) |-> RMax(RZero, EnsById(c, id).activation)]
    IN  RSum(pos, EnsIds(c))
InhibitionDenom(c) == RAdd(ROne, RMul(c.inhibition_gain, InhibitionTotal(c)))
\* Whether the stage returns or its first division raises.
InhibitionStatus(c) ==
    IF ~LeTiny(InhibitionTotal(c)) /\ InhibitionDenom(c) = RZero
    THEN "ZeroDivisionError" ELSE "ok"
LateralInhibition(c) ==
    IF LeTiny(InhibitionTotal(c)) \/ InhibitionStatus(c) # "ok" THEN c
    ELSE [c EXCEPT !.ensembles_by_id =
             [i \in DOMAIN @ |->
                 [@[i] EXCEPT !.activation = RDiv(@, InhibitionDenom(c))]]]


(***************************************************************************)
(* The driver's calls on its concepts                                      *)
(***************************************************************************)
\* FeatureEnsemble constructor arguments the driver uses (name, modality, vector).
DistinctInputs == {<<"x", "vision", <<1, 0>>>>, <<"y", "audio", <<0, 1>>>>}
GainInputs == {<<1, 1>>}
\* cues: name -> vector, in the dict's order.
CueInputs ==
    {<< >>,
     <<<<"x", <<1, 0>>>>>>,
     <<<<"y", <<0, 1>>>>, <<"x", <<4, 3>>>>>>,
     <<<<"x", <<-1, 0>>>>, <<"q", <<1, 0>>>>>>,
     <<<<"x", << >>>>, <<"y", <<0, 1, 0>>>>>>}

AllEnsIds == UNION {EnsIds(pool[sl]) : sl \in DOMAIN pool}
\* uuid4(): an identity no ensemble has.
RECURSIVE FreshFrom(_, _)
FreshFrom(used, n) == IF n \in used THEN FreshFrom(used, n + 1) ELSE n
FreshId(used) == FreshFrom(used, 1)

LinkCount(c) ==
    LET n == [i \in DOMAIN EnsSeq(c) |-> RInt(Len(EnsSeq(c)[i].links))]
    IN  RSum(n, DOMAIN EnsSeq(c))[1]

\* c.add_ensemble(FeatureEnsemble(name, modality, vector))
AddEnsemble(slot, inp) ==
    /\ Len(EnsSeq(pool[slot])) < MaxEns
    /\ LET e == NewEnsemble(FreshId(AllEnsIds), inp[1], inp[2], inp[3], "")
       IN  pool' = [pool EXCEPT ![slot] = AddEnsembleOp(@, e)]
    /\ cCall' = [op |-> "add_ensemble", slot |-> slot]
    /\ UNCHANGED <<result, nCalls>>
    /\ UNCHANGED heap
    /\ UNCHANGED rtVars

\* e.add_link(target_id, weight) on an ensemble of the concept
AddLink(slot, src, tgt, w) ==
    /\ src \in EnsIds(pool[slot])
    /\ LinkCount(pool[slot]) < MaxLinks
    /\ ~DictHas(EnsById(pool[slot], src).links, tgt)
    /\ pool' = [pool EXCEPT ![slot] =
                   SetEnsemble(@, AddLinkOp(EnsById(@, src), tgt, w))]
    /\ cCall' = [op |-> "add_link", slot |-> slot]
    /\ UNCHANGED <<result, nCalls>>
    /\ UNCHANGED heap
    /\ UNCHANGED rtVars

\* What one stimulate call leaves behind: the concept, whether the call
\* returned ("ok") or raised, and the activations after stages 1 and 2.
StimulateOutcome2(c1, sp) ==
    [c |-> IF sp.status = "ok" THEN LateralInhibition(sp.c) ELSE sp.c,
     status |-> IF sp.status = "ok" THEN InhibitionStatus(sp.c) ELSE sp.status,
     stage1 |-> Activations(c1), stage2 |-> Activations(sp.c)]
StimulateOutcome1(c1) == StimulateOutcome2(c1, Spread(c1))
StimulateOutcome(c0, cues, gain) ==
    StimulateOutcome1(DirectActivation(c0, cues, gain, 1))

\* c.stimulate(cues, gain).  The returned display snapshot (activations
\* rounded to 4 digits) is not part of the state and is not modelled.
Stimulate(slot, cues, gain) ==
    /\ nCalls < MaxCalls
    /\ \E o \in {StimulateOutcome(pool[slot], cues, gain)} :
          /\ pool' = [pool EXCEPT ![slot] = o.c]
          /\ cCall' = [op |-> "stimulate", slot |-> slot, cues |-> cues,
                       gain |-> gain, status |-> o.status, before |-> pool[slot],
                       stage1 |-> o.stage1, stage2 |-> o.stage2]
    /\ nCalls' = nCalls + 1
    /\ UNCHANGED result
    /\ UNCHANGED heap
    /\ UNCHANGED rtVars

DefaultGain == <<1, 4>>
DefaultThreshold == <<3, 20>>

CInit ==
    /\ pool = [A |-> NewConcept(IdA, "A", "", DefaultMetadata,
                                DefaultGain, DefaultThreshold),
               B |-> NewConcept(IdB, "B", "", DefaultMetadata,
                                DefaultGain, DefaultThreshold)]
    /\ result = NoConcept
    /\ cCall = [op |-> "init"]
    /\ nCalls = 0
    /\ heap = NoHeap
CIdle == CInit

vars == <<rtVars, cVars>>

Init == RTInit /\ CIdle

Next ==
    \/ \E tt \in 0..MaxTime, key \in KeySet, strength \in StrengthInputs :
          ScheduleSpike(tt, key, strength)
    \/ \E dt \in 0..MaxDt : ActivateStep(dt)

Spec == Init /\ [][Next]_vars

(***************************************************************************)
(* The plasticity of CellEnsembleRT: whole spike patterns are scheduled,   *)
(* each ahead of time and at a time of its own, and the instance is        *)
(* stepped through them.                                                   *)
(***************************************************************************)
WeightsInit == RTInitParams(RegistryInputs, MaxWeightInputs) /\ CIdle
WeightsNext ==
    \/ \E spikes \in PatternInputs :
          /\ spikes[1][1] > now
          /\ spikes[1][1] \notin DOMAIN scheduled
          /\ SchedulePattern(spikes)
    \/ \E dt \in 0..MaxDt : ActivateStep(dt)
SpecWeights == WeightsInit /\ [][WeightsNext]_vars
\* The same with activate_step called again and again: a call that fires no
\* pair leaves Decayed(weights), and while that differs from weights such a
\* call is eventually made.  activate_step(0) is such a call in every state
\* (StepDecays).
StepDecayed == weights' = Decayed(weights)
StepDecays ==
    Decayed(weights) # weights => ENABLED (ActivateStep(0) /\ StepDecayed)
SteppingInit == RTInitParams({"none"}, MaxWeightInputs) /\ CIdle
SteppingNext ==
    \/ \E spikes \in PatternInputs :
          /\ spikes[1][1] > now
          /\ spikes[1][1] \notin DOMAIN scheduled
          /\ Cardinality(DOMAIN fireCount) + Len(spikes) <= 2 * MaxSpikes
          /\ SchedulePattern(spikes)
    \/ \E dt \in 0..MaxDt : ActivateStep(dt)
SpecWeightsStepping ==
    SteppingInit /\ [][SteppingNext]_vars /\ WF_weights(StepDecayed)

(***************************************************************************)
(* The keys of the weight map: patterns with several spikes of one unit,   *)
(* at one time or spread over the times of one step, are scheduled and     *)
(* the instance is stepped through them.                                   *)
(***************************************************************************)
PairPatternInputs ==
    {<<<<tt, "y", ROne>>, <<tt, "x", ROne>>, <<tt, "y", ROne>>>> :
        tt \in 1..MaxTime}
       \cup {<<<<tt, "y", ROne>>, <<tt + 1, "x", ROne>>>> : tt \in 1..(MaxTime - 1)}
       \cup {<<<<tt, "x", ROne>>>> : tt \in 1..MaxTime}
PairsInit == RTInit /\ CIdle
PairsNext ==
    \/ \E spikes \in PairPatternInputs :
          /\ \A i \in DOMAIN spikes :
                spikes[i][1] > now /\ spikes[i][1] \notin DOMAIN scheduled
          /\ SchedulePattern(spikes)
    \/ \E dt \in 0..MaxDt : ActivateStep(dt)
SpecPairs == PairsInit /\ [][PairsNext]_vars

(***************************************************************************)
(* The clock of CellEnsembleRT in binary64.  _t, dt and the timestamps of  *)
(* the schedule are floats: t1 = t0 + dt is rounded, and the tests of the  *)
(* scan compare floats.  A spike is known by its number, its timestamp and *)
(* whether it was scheduled ahead of the current time.                     *)
(***************************************************************************)
FBig == FMul(FFromRatio(2 ^ 26, 1), FFromRatio(2 ^ 27, 1))
FBigEnd == FAdd(FBig, FFromRatio(4, 1))
\* dt handed to activate_step (all positive): 0.5, 1.0 and 2.0 ** 53.
ClockSteps == {FFromRatio(1, 2), FOne, FBig}
\* Timestamps handed to schedule_spike: 1.0, 1.5 and 2.0 ** 53 + 4.
ClockTimes == {FOne, FFromRatio(3, 2), FBigEnd}

\* schedule_spike(t, key) with the default strength
ScheduleSpikeF(tt, key) ==
    /\ Cardinality(DOMAIN fireCount) < MaxSpikes
    /\ LET id == [n |-> Cardinality(DOMAIN fireCount) + 1, ts |-> tt,
                  ahead |-> FLess(now, tt)]
           ev == [key |-> key, s |-> ClampStrength(ROne), id |-> id]
           old == IF tt \in DOMAIN scheduled THEN scheduled[tt] ELSE <<>>
       IN  /\ units' = units \cup {key}
           /\ scheduled' = [ts \in DOMAIN scheduled \cup {tt} |->
                               IF ts = tt THEN Append(old, ev) ELSE scheduled[ts]]
           /\ fireCount' = [i \in DOMAIN fireCount \cup {id} |->
                               IF i = id THEN 0 ELSE fireCount[i]]
           /\ rtCall' = [op |-> "schedule_spike", dt |-> FZero, ret |-> {},
                         calls |-> rtCall.calls]
    /\ UNCHANGED <<weights, now, active_last_step, registry, max_weight>>
    /\ UNCHANGED cVars

\* A scan that takes the start of the window and leaves its end.
DueFMutClosedOpen(ts, t0, t1) == ~FLess(ts, t0) /\ FLess(ts, t1)
\* The test of activate_step's scan on floats: t0 < ts <= t1.
DueF(ts, t0, t1) == FLess(t0, ts) /\ ~FLess(t1, ts)

\* The times the model follows the clock through: up to MaxTime, and from
\* 2.0 ** 53 to 2.0 ** 53 + 4.
ClockFollowed(t1) ==
    \/ ~FLess(FFromRatio(MaxTime, 1), t1)
    \/ ~FLess(t1, FBig) /\ ~FLess(FBigEnd, t1)

\* activate_step(dt); rtCall.calls is the parity of the number of calls.
ActivateStepF(dt) ==
    LET t0 == now
        t1 == FAdd(now, dt)
        to_delete == {ts \in DOMAIN scheduled : DueF(ts, t0, t1)}
        firedEv == UNION {Range(scheduled[ts]) : ts \in to_delete}
        fired_now == {e.key : e \in firedEv}
    IN  /\ ClockFollowed(t1)
        /\ scheduled' = Unschedule(scheduled, to_delete)
        /\ weights' = Hebbed(Decayed(weights), fired_now)
        /\ active_last_step' = fired_now
        /\ now' = t1
        /\ fireCount' = [i \in DOMAIN fireCount |->
                            IF \E e \in firedEv : e.id = i
                            THEN fireCount[i] + 1 ELSE fireCount[i]]
        /\ rtCall' = [op |-> "activate_step", dt |-> dt, ret |-> fired_now,
                      calls |-> 1 - rtCall.calls]
        /\ UNCHANGED <<units, registry, max_weight>>
        /\ UNCHANGED cVars

ClockInit ==
    /\ units = {}
    /\ scheduled = << >>
    /\ weights = << >>
    /\ now = FZero
    /\ active_last_step = {}
    /\ registry = "none"
    /\ max_weight = <<6, 1>>
    /\ fireCount = << >>
    /\ rtCall = [op |-> "init", dt |-> FZero, ret |-> {}, calls |-> 0]
    /\ CIdle

StepF == \E dt \in ClockSteps : ActivateStepF(dt)
ClockNext ==
    \/ \E tt \in ClockTimes, key \in KeySet : ScheduleSpikeF(tt, key)
    \/ StepF
\* A call of activate_step as the history shows it.  Some dt is followed
\* from every time (CanStep), so a call is possible in every state.
StepCalled ==
    \E dt \in ClockSteps, ret \in SUBSET KeySet :
       rtCall' = [op |-> "activate_step", dt |-> dt, ret |-> ret,
                  calls |-> 1 - rtCall.calls]
CanStep == \E dt \in ClockSteps : ClockFollowed(FAdd(now, dt))
\* activate_step is called again and again, each time with some dt > 0.
SpecClock == ClockInit /\ [][ClockNext]_vars /\ WF_rtCall(StepCalled)

(***************************************************************************)
(* CellEnsembleRT.to_vector                                                *)
(***************************************************************************)
\* The unit_order argument: not given (None), or a list of unit keys.
NoOrder == [given |-> FALSE, keys |-> << >>]
Order(keys) == [given |-> TRUE, keys |-> keys]

\* sorted(self.units)
SortedUnits(S) == SelectSeq(UnitKeys, LAMBDA k : k \in S)

\* order = unit_order or sorted(self.units): None and [] are both falsy.
VectorOrder(unit_order) ==
    IF unit_order.given /\ unit_order.keys # << >>
    THEN unit_order.keys
    ELSE SortedUnits(units)

\* A window test that leaves the end t1 out.
InWindowMutOpen(ts, t0, t1) == t0 <= ts /\ ts < t1
\* The test of to_vector's scan: t0 <= ts <= t1.
InWindow(ts, t0, t1) == t0 <= ts /\ ts <= t1

\* to_vector(window, unit_order): counts[k] += s over the scheduled events
\* of the window whose key is in counts; [counts[k] for k in order].
ToVector(window, unit_order) ==
    LET t0 == window[1]
        t1 == window[2]
        order == VectorOrder(unit_order)
        events == UNION {Range(scheduled[ts]) :
                            ts \in {u \in DOMAIN scheduled : InWindow(u, t0, t1)}}
        s == [e \in events |-> e.s]
        counts == [k \in Range(order) |->
                      RSum(s, {e \in events : e.key = k})]
    IN  [i \in DOMAIN order |-> counts[order[i]]]

\* Windows: one timestamp, the whole time line, and an empty one.
WindowInputs ==
    {<<t, t>> : t \in 0..MaxTime} \cup {<<0, MaxTime>>, <<MaxTime, 0>>}

\* Orders: none, an empty one, and a reversed one with a repeated key and a
\* key that is no unit.
OrderInputs == {NoOrder, Order(<< >>), Order(<<"y", "z", "x", "y">>)}

\* The spikes to_vector sums: key and strength handed to schedule_spike.
VectorSpikes == {<<"x", <<1, 2>>>>, <<"y", <<2, 1>>>>}

ToVectorCall(window, unit_order) ==
    /\ rtCall' = [op |-> "to_vector", dt |-> 0,
                  ret |-> ToVector(window, unit_order),
                  window |-> window, unit_order |-> unit_order]
    /\ UNCHANGED <<units, scheduled, weights, now, active_last_step, registry,
                   max_weight, fireCount>>
    /\ UNCHANGED cVars

VectorInit == RTInitWith({"none"}) /\ CIdle
VectorNext ==
    \/ \E tt \in 0..MaxTime, spike \in VectorSpikes :
          ScheduleSpike(tt, spike[1], spike[2])
    \/ \E dt \in 0..MaxDt : ActivateStep(dt)
    \/ \E window \in WindowInputs, unit_order \in OrderInputs :
          ToVectorCall(window, unit_order)
SpecVector == VectorInit /\ [][VectorNext]_vars

(***************************************************************************)
(* CellEnsembleRT.add_units and overlap_with                               *)
(***************************************************************************)
\* Keys a second ensemble may hold: the unit keys and one key of its own.
OtherKeys == KeySet \cup {"z"}

\* add_units(keys): self.units.add(k) for each key.
AddUnits(keys) ==
    /\ units' = units \cup keys
    /\ rtCall' = [op |-> "add_units", dt |-> 0, ret |-> {}, keys |-> keys]
    /\ UNCHANGED <<scheduled, weights, now, active_last_step, registry,
                   max_weight, fireCount>>
    /\ UNCHANGED cVars

\* An overlap that has no case of its own for two empty memberships.
OverlapWithMutNoEmptyCase(self_units, other_units) ==
    LET inter == Cardinality(self_units \cap other_units)
        union == Cardinality(self_units \cup other_units)
    IN  IF union > 0 THEN Norm(inter, union) ELSE RZero
\* overlap_with(other), self and other given by their units.
OverlapWith(self_units, other_units) ==
    IF self_units = {} /\ other_units = {}
    THEN ROne
    ELSE LET inter == Cardinality(self_units \cap other_units)
             union == Cardinality(self_units \cup other_units)
         IN  IF union > 0 THEN Norm(inter, union) ELSE RZero

\* self.overlap_with(other) and other.overlap_with(self), other an ensemble
\* with the units other_units.
OverlapWithCall(other_units) ==
    /\ rtCall' = [op |-> "overlap_with", dt |-> 0,
                  ret |-> OverlapWith(units, other_units),
                  other |-> other_units,
                  swapped |-> OverlapWith(other_units, units)]
    /\ UNCHANGED <<units, scheduled, weights, now, active_last_step, registry,
                   max_weight, fireCount>>
    /\ UNCHANGED cVars

OverlapInit == RTInitWith({"none"}) /\ CIdle
OverlapNext ==
    \/ \E keys \in SUBSET KeySet : AddUnits(keys)
    \/ \E dt \in 0..MaxDt : ActivateStep(dt)
    \/ \E other_units \in SUBSET OtherKeys : OverlapWithCall(other_units)
SpecOverlap == OverlapInit /\ [][OverlapNext]_vars

(***************************************************************************)
(* The Concept dynamics: one concept is built and then stimulated.         *)
(***************************************************************************)
ConceptInit == RTInitWith({"none"}) /\ CInit

\* The driver builds the concept first and then runs its dynamics.
ConceptNext ==
    \/ \E inp \in DistinctInputs : nCalls = 0 /\ AddEnsemble("A", inp)
    \/ \E src \in EnsIds(pool["A"]), tgt \in EnsIds(pool["A"]) \cup {IdDangling} :
          nCalls = 0 /\ AddLink("A", src, tgt, <<1, 2>>)
    \/ \E cues \in CueInputs, gain \in GainInputs :
          nCalls = 0 /\ Stimulate("A", cues, gain)

SpecConcept == ConceptInit /\ [][ConceptNext]_vars

(***************************************************************************)
(* C1: activate_step(dt) started at t0 fires exactly the scheduled spikes  *)
(* with t0 < ts <= t0 + dt, removes exactly those from the schedule,       *)
(* leaves every other spike in place, advances the time to t0 + dt and     *)
(* returns the set of fired keys; no spike is ever fired more than once.   *)
(***************************************************************************)
C1_StepPost ==
    LET t0 == now
        dt == rtCall'.dt
        due == {ts \in DOMAIN scheduled : t0 < ts /\ ts <= t0 + dt}
        dueEv == UNION {Range(scheduled[ts]) : ts \in due}
    IN  /\ now' = t0 + dt
        /\ DOMAIN scheduled' = DOMAIN scheduled \ due
        /\ \A ts \in DOMAIN scheduled' : scheduled'[ts] = scheduled[ts]
        /\ rtCall'.ret = {e.key : e \in dueEv}
        /\ \A i \in DOMAIN fireCount :
              fireCount'[i] = fireCount[i]
                              + (IF \E e \in dueEv : e.id = i THEN 1 ELSE 0)

C1_FiresWindowOnce ==
    [][/\ rtCall'.op = "activate_step" => C1_StepPost
       /\ \A i \in DOMAIN fireCount' : fireCount'[i] <= 1]_vars

\* A step that fired one spike and left the spike stamped exactly t0 scheduled.
C1_Witness ==
    /\ rtCall.op = "activate_step"
    /\ rtCall.ret # {}
    /\ \E i \in DOMAIN fireCount : fireCount[i] = 1
    /\ \E ts \in DOMAIN scheduled : ts = now - rtCall.dt

(***************************************************************************)
(* Reference notions the claims on Concept.stimulate are stated with.      *)
(***************************************************************************)
\* The weight of the link S -> T of concept c, 0 when there is none.
LinkWeight(c, S, T) == DictGet(EnsById(c, S).links, T, RZero)

\* The synchronous one-hop spread received by T from activations act.
SpreadInto(c, act, T) ==
    LET part == [S \in EnsIds(c) |->
                    IF RLt(RZero, act[S]) THEN RMul(act[S], LinkWeight(c, S, T))
                    ELSE RZero]
    IN  RSum(part, EnsIds(c))

\* Cue activation, synchronous spread over the concept's own ensembles, then
\* lateral inhibition: the three stages, a dangling link counting as absent.
AllStages(c0, cues, gain) ==
    LET c1 == DirectActivation(c0, cues, gain, 1)
        act == Activations(c1)
        c2 == [c1 EXCEPT !.ensembles_by_id =
                  [i \in DOMAIN @ |->
                      [@[i] EXCEPT !.activation =
                          RAdd(@, SpreadInto(c1, act, c1.ensembles_by_id[i].ensemble_id))]]]
    IN  LateralInhibition(c2)

DanglingLinks(c) ==
    UNION {{<<e.ensemble_id, t>> : t \in DictKeys(e.links) \ EnsIds(c)} :
              e \in Range(EnsSeq(c))}

WithoutDangling(c) ==
    [c EXCEPT !.ensembles_by_id =
        [i \in DOMAIN @ |->
            [@[i] EXCEPT !.links = SelectSeq(@, LAMBDA l : l[1] \in EnsIds(c))]]]

C3_StimulateAtomic ==
    cCall.op = "stimulate" =>
        \/ Activations(pool[cCall.slot]) = Activations(cCall.before)
        \/ Activations(pool[cCall.slot]) =
              Activations(AllStages(cCall.before, cCall.cues, cCall.gain))

(***************************************************************************)
(* C4: on a concept with a dangling link stimulate completes without       *)
(* failure and its result is that of the same concept without the link.    *)
(***************************************************************************)
C4_DanglingLinkAbsent ==
    (cCall.op = "stimulate" /\ DanglingLinks(cCall.before) # {}) =>
        /\ cCall.status = "ok"
        /\ Activations(pool[cCall.slot]) =
              Activations(StimulateOutcome(WithoutDangling(cCall.before),
                                           cCall.cues, cCall.gain).c)

(***************************************************************************)
(* UUID text.  str(uuid) is modelled by a two-digit hexadecimal numeral    *)
(* and uuid.UUID(text) by its parse, which fails on any other text.        *)
(***************************************************************************)
HexDigits == <<"0", "1", "2", "3", "4", "5", "6", "7",
               "8", "9", "a", "b", "c", "d", "e", "f">>
UuidSpace == 0..255
\* A text that keeps only the last digit.
UuidStrMutLastDigit(u) == HexDigits[1] \o HexDigits[(u % 16) + 1]
\* str(u)
UuidStr(u) == HexDigits[(u \div 16) + 1] \o HexDigits[(u % 16) + 1]
UuidText == [u \in UuidSpace |-> UuidStr(u)]
\* uuid.UUID(s): the identity, or NoneId where the source raises ValueError.
ParseUuid(s) ==
    IF \E u \in UuidSpace : UuidText[u] = s
    THEN CHOOSE u \in UuidSpace : UuidText[u] = s
    ELSE NoneId

(***************************************************************************)
(* Engram I/O                                                              *)
(***************************************************************************)
\* Concept.serialize_engram
SerializeEngram(c) ==
    [concept_id |-> UuidStr(c.concept_id),
     name |-> c.name,
     description |-> c.description,
     ensembles |->
        [i \in DOMAIN EnsSeq(c) |->
            LET e == EnsSeq(c)[i]
            IN  [ensemble_id |-> UuidStr(e.ensemble_id),
                 name |-> e.name,
                 modality |-> e.modality,
                 vector |-> e.vector,
                 links |-> [j \in DOMAIN e.links |->
                               <<UuidStr(e.links[j][1]), e.links[j][2]>>]]],
     relationships |->
        [i \in DOMAIN c.relationships |->
            [type |-> c.relationships[i].relation_type,
             target_concept_id |-> UuidStr(c.relationships[i].target_concept_id),
             description |-> c.relationships[i].description]],
     params |-> [inhibition_gain |-> c.inhibition_gain,
                 activation_threshold |-> c.activation_threshold],
     metadata |-> c.metadata]

\* key in d, d.get(key, default) and the dict without the key, for a JSON
\* object d.
HasKey(d, key) == key \in DOMAIN d
GetKey(d, key, default) == IF key \in DOMAIN d THEN d[key] ELSE default
DropKey(d, key) == [k \in DOMAIN d \ {key} |-> d[k]]

\* from_engram, "# Ensembles": one FeatureEnsemble per entry, identity preserved.
RECURSIVE EngramEnsembles(_, _, _)
EngramEnsembles(c, eds, i) ==
    IF i > Len(eds) THEN [c |-> c, status |-> "ok"]
    ELSE IF ~HasKey(eds[i], "name") \/ ~HasKey(eds[i], "ensemble_id")
         THEN [c |-> c, status |-> "KeyError"]
    ELSE LET id == ParseUuid(eds[i].ensemble_id)
         IN  IF id = NoneId THEN [c |-> c, status |-> "ValueError"]
             ELSE EngramEnsembles(
                     AddEnsembleOp(c, NewEnsemble(id, eds[i].name,
                                                  GetKey(eds[i], "modality", "unknown"),
                                                  GetKey(eds[i], "vector", << >>),
                                                  "")),
                     eds, i + 1)

\* from_engram, "# Links": s.links[uuid.UUID(t_str)] = w for one ensemble.
RECURSIVE EngramLinks(_, _, _)
EngramLinks(links, lds, j) ==
    IF j > Len(lds) THEN [links |-> links, status |-> "ok"]
    ELSE IF ParseUuid(lds[j][1]) = NoneId
         THEN [links |-> links, status |-> "ValueError"]
         ELSE EngramLinks(DictSet(links, ParseUuid(lds[j][1]), lds[j][2]),
                          lds, j + 1)

RECURSIVE EngramAllLinks(_, _, _)
EngramAllLinks(c, eds, i) ==
    IF i > Len(eds) THEN [c |-> c, status |-> "ok"]
    ELSE LET s == EnsById(c, ParseUuid(eds[i].ensemble_id))
             r == EngramLinks(s.links, GetKey(eds[i], "links", << >>), 1)
             c2 == SetEnsemble(c, [s EXCEPT !.links = r.links])
         IN  IF r.status # "ok" THEN [c |-> c2, status |-> r.status]
             ELSE EngramAllLinks(c2, eds, i + 1)

\* from_engram, "# Relationships".
RECURSIVE EngramRelationships(_, _, _)
EngramRelationships(c, rds, i) ==
    IF i > Len(rds) THEN [c |-> c, status |-> "ok"]
    ELSE IF ~HasKey(rds[i], "type") \/ ~HasKey(rds[i], "target_concept_id")
         THEN [c |-> c, status |-> "KeyError"]
    ELSE IF ParseUuid(rds[i].target_concept_id) = NoneId
         THEN [c |-> c, status |-> "ValueError"]
         ELSE EngramRelationships(
                 AddRelationshipOp(c, rds[i].type,
                                   ParseUuid(rds[i].target_concept_id),
                                   GetKey(rds[i], "description", "")),
                 rds, i + 1)

\* Steps of from_engram, each run only when the one before returned.
FromEngram3(data, r2) ==
    IF r2.status # "ok" THEN r2
    ELSE EngramRelationships(r2.c, GetKey(data, "relationships", << >>), 1)
FromEngram2(data, r1) ==
    IF r1.status # "ok" THEN r1
    ELSE FromEngram3(data,
                     EngramAllLinks(r1.c, GetKey(data, "ensembles", << >>), 1))

\* Concept.from_engram: the concept built, or the error raised.
FromEngram(data) ==
    IF ~HasKey(data, "concept_id")
    THEN [c |-> NoConcept, status |-> "KeyError"]
    ELSE IF ParseUuid(data.concept_id) = NoneId
    THEN [c |-> NoConcept, status |-> "ValueError"]
    ELSE FromEngram2(data,
            EngramEnsembles(
                NewConcept(ParseUuid(data.concept_id),
                           GetKey(data, "name", ""),
                           GetKey(data, "description", ""),
                           GetKey(data, "metadata", << >>),
                           GetKey(GetKey(data, "params", << >>),
                                  "inhibition_gain", DefaultGain),
                           GetKey(GetKey(data, "params", << >>),
                                  "activation_threshold", DefaultThreshold)),
                GetKey(data, "ensembles", << >>), 1))


(***************************************************************************)
(* Concept algebra (manipulations.py).  Each operation builds a new        *)
(* concept; `used` is the set of ensemble identities already in existence, *)
(* so that every copy gets an identity of its own.                         *)
(***************************************************************************)
\* _ensemble_name_set
EnsembleNameSet(c) == DOMAIN c.ensembles_by_name

\* _copy_concept_shallow: a new, empty concept with a's parameters.
CopyConceptShallow(c, new_name, cid) ==
    NewConcept(cid, new_name, "Derived from " \o c.name, c.metadata,
               c.inhibition_gain, c.activation_threshold)

\* A copy that takes the links of e along as they are.
CopyEnsembleMutKeepLinks(e, name, id) ==
    [NewEnsemble(id, name, e.modality, e.vector, e.description)
        EXCEPT !.links = e.links]
\* FeatureEnsemble(name=..., modality=e.modality, vector=list(e.vector),
\* description=e.description): a copy of e under a name, with no links.
CopyEnsemble(e, name, id) ==
    NewEnsemble(id, name, e.modality, e.vector, e.description)

\* list_relations
ListRelations(c) ==
    [i \in DOMAIN c.relationships |->
        <<c.relationships[i].relation_type,
          UuidStr(c.relationships[i].target_concept_id),
          c.relationships[i].description>>]

\* The orders in which a Python set may be iterated.
Perms(S) ==
    {s \in [1..Cardinality(S) -> S] :
        \A i, j \in 1..Cardinality(S) : i # j => s[i] # s[j]}

\* merge_concepts, "# Copy all ensembles from A"
RECURSIVE MergeCopyA(_, _, _, _)
MergeCopyA(c, a, i, used) ==
    IF i > Len(EnsSeq(a)) THEN c
    ELSE MergeCopyA(
            AddEnsembleOp(c, CopyEnsemble(EnsSeq(a)[i], EnsSeq(a)[i].name,
                                          FreshId(used \cup EnsIds(c)))),
            a, i + 1, used)

\* merge_concepts, "# Copy all ensembles from B (resolve name collisions)"
RECURSIVE MergeCopyB(_, _, _, _)
MergeCopyB(c, b, i, used) ==
    IF i > Len(EnsSeq(b)) THEN c
    ELSE LET eb == EnsSeq(b)[i]
             name_b == IF eb.name \notin EnsembleNameSet(c)
                       THEN eb.name ELSE eb.name \o "__B"
         IN  MergeCopyB(
                AddEnsembleOp(c, CopyEnsemble(eb, name_b,
                                              FreshId(used \cup EnsIds(c)))),
                b, i + 1, used)

\* name_to_id = {e.name: eid for eid, e in c.ensembles_by_id.items()}
NameToId(c) ==
    [n \in {EnsSeq(c)[i].name : i \in DOMAIN EnsSeq(c)} |->
        LET last == CHOOSE i \in DOMAIN EnsSeq(c) :
                       /\ EnsSeq(c)[i].name = n
                       /\ \A j \in DOMAIN EnsSeq(c) :
                             EnsSeq(c)[j].name = n => j <= i
        IN  EnsSeq(c)[last].ensemble_id]

\* copy_links, inner loop: the links of one source ensemble, re-targeted.
RECURSIVE CopyLinksOf(_, _, _, _, _, _)
CopyLinksOf(links, elinks, j, src, suffix, name_to_id) ==
    IF j > Len(elinks) THEN [links |-> links, status |-> "ok"]
    ELSE IF elinks[j][1] \notin EnsIds(src)
         THEN [links |-> links, status |-> "KeyError"]
         ELSE LET tname == EnsById(src, elinks[j][1]).name
                  tname2 == IF suffix = "" THEN tname ELSE tname \o suffix
              IN  CopyLinksOf(
                     IF tname2 \in DOMAIN name_to_id
                     THEN DictSet(links, name_to_id[tname2], elinks[j][2])
                     ELSE links,
                     elinks, j + 1, src, suffix, name_to_id)

\* copy_links(src, suffix)
RECURSIVE CopyLinks(_, _, _, _, _)
CopyLinks(c, src, suffix, name_to_id, i) ==
    IF i > Len(EnsSeq(src)) THEN [c |-> c, status |-> "ok"]
    ELSE LET e == EnsSeq(src)[i]
             sname == IF suffix = "" THEN e.name ELSE e.name \o suffix
         IN  IF sname \notin DOMAIN name_to_id
             THEN CopyLinks(c, src, suffix, name_to_id, i + 1)
             ELSE LET se == EnsById(c, name_to_id[sname])
                      r == CopyLinksOf(se.links, e.links, 1, src, suffix,
                                       name_to_id)
                      c2 == SetEnsemble(c, [se EXCEPT !.links = r.links])
                  IN  IF r.status # "ok" THEN [c |-> c2, status |-> r.status]
                      ELSE CopyLinks(c2, src, suffix, name_to_id, i + 1)

\* A merge whose result starts from a's own relationship edges.
MergeFinishMutOwnEdges(a, b, r) ==
    IF r.status # "ok"
    THEN [c |-> NoConcept, status |-> r.status,
          delta |-> [added |-> << >>, removed |-> << >>]]
    ELSE LET c == AddRelationshipOp(
                     AddRelationshipOp([r.c EXCEPT !.relationships = a.relationships],
                                       "MERGED_FROM", a.concept_id,
                                       "source:" \o a.name),
                     "MERGED_FROM", b.concept_id, "source:" \o b.name)
         IN  [c |-> c, status |-> "ok",
              delta |-> [added |-> ListRelations(c), removed |-> << >>]]

\* The tail of merge_concepts: the two MERGED_FROM edges and the delta.
MergeFinish(a, b, r) ==
    IF r.status # "ok"
    THEN [c |-> NoConcept, status |-> r.status,
          delta |-> [added |-> << >>, removed |-> << >>]]
    ELSE LET c == AddRelationshipOp(
                     AddRelationshipOp(r.c, "MERGED_FROM", a.concept_id,
                                       "source:" \o a.name),
                     "MERGED_FROM", b.concept_id, "source:" \o b.name)
         IN  [c |-> c, status |-> "ok",
              delta |-> [added |-> ListRelations(c), removed |-> << >>]]

MergeLinksB(b, name_to_id, r) ==
    IF r.status # "ok" THEN r ELSE CopyLinks(r.c, b, "__B", name_to_id, 1)
MergeLinks(a, b, c) ==
    MergeLinksB(b, NameToId(c), CopyLinks(c, a, "", NameToId(c), 1))

\* merge_concepts(a, b, new_name): the concept returned with its relation
\* delta, or the error raised.
MergeConcepts(a, b, new_name, cid, used) ==
    MergeFinish(a, b,
        MergeLinks(a, b,
            MergeCopyB(MergeCopyA(CopyConceptShallow(a, new_name, cid),
                                  a, 1, used),
                       b, 1, used)))


\* intersect_concepts, first loop over shared_names (in the set's order):
\* copies of a's ensembles, and name_to_new_id.
RECURSIVE IntersectCopy(_, _, _, _, _)
IntersectCopy(st, a, order, i, used) ==
    IF i > Len(order) THEN st
    ELSE IF GetEnsemble(a, order[i]) = NoneId
         THEN IntersectCopy(st, a, order, i + 1, used)
         ELSE LET ea == EnsById(a, GetEnsemble(a, order[i]))
                  id == FreshId(used \cup EnsIds(st.c))
              IN  IntersectCopy(
                     [c |-> AddEnsembleOp(st.c, CopyEnsemble(ea, ea.name, id)),
                      name_to_new_id |->
                         [n \in DOMAIN st.name_to_new_id \cup {order[i]} |->
                             IF n = order[i] THEN id ELSE st.name_to_new_id[n]]],
                     a, order, i + 1, used)

\* The link loop shared by intersect_concepts and subtract_concepts: the
\* links of one kept ensemble of a, re-targeted by name.
RECURSIVE RecreateLinksOf(_, _, _, _, _)
RecreateLinksOf(links, elinks, j, a, name_to_new) ==
    IF j > Len(elinks) THEN [links |-> links, status |-> "ok"]
    ELSE IF elinks[j][1] \notin EnsIds(a)
         THEN [links |-> links, status |-> "KeyError"]
         ELSE LET t_name == EnsById(a, elinks[j][1]).name
              IN  RecreateLinksOf(
                     IF t_name \in DOMAIN name_to_new
                     THEN DictSet(links, name_to_new[t_name], elinks[j][2])
                     ELSE links,
                     elinks, j + 1, a, name_to_new)

\* intersect_concepts, "# Recreate links where both endpoints are still present"
RECURSIVE IntersectLinks(_, _, _, _, _)
IntersectLinks(c, a, order, i, name_to_new_id) ==
    IF i > Len(order) THEN [c |-> c, status |-> "ok"]
    ELSE IF GetEnsemble(a, order[i]) = NoneId \/ GetEnsemble(c, order[i]) = NoneId
         THEN IntersectLinks(c, a, order, i + 1, name_to_new_id)
         ELSE LET ea == EnsById(a, GetEnsemble(a, order[i]))
                  se == EnsById(c, GetEnsemble(c, order[i]))
                  r == RecreateLinksOf(se.links, ea.links, 1, a, name_to_new_id)
                  c2 == SetEnsemble(c, [se EXCEPT !.links = r.links])
              IN  IF r.status # "ok" THEN [c |-> c2, status |-> r.status]
                  ELSE IntersectLinks(c2, a, order, i + 1, name_to_new_id)

\* {(r.relation_type, str(r.target_concept_id)) for r in c.relationships}
RelPairs(c) ==
    {<<c.relationships[i].relation_type,
       UuidStr(c.relationships[i].target_concept_id)>> :
        i \in DOMAIN c.relationships}
SharedRelsMutEither(a, b) == RelPairs(a) \cup RelPairs(b)
SharedRels(a, b) == RelPairs(a) \cap RelPairs(b)

\* intersect_concepts, "# Add shared relations to the *new* intersect concept"
RECURSIVE IntersectRelations(_, _, _)
IntersectRelations(c, relOrder, i) ==
    IF i > Len(relOrder) THEN c
    ELSE IntersectRelations(
            AddRelationshipOp(c, relOrder[i][1], ParseUuid(relOrder[i][2]),
                              "shared relation"),
            relOrder, i + 1)

IntersectFinish(r, relOrder) ==
    IF r.status # "ok"
    THEN [c |-> NoConcept, status |-> r.status,
          delta |-> [added |-> << >>, removed |-> << >>]]
    ELSE LET c == IntersectRelations(r.c, relOrder, 1)
         IN  [c |-> c, status |-> "ok",
              delta |-> [added |-> ListRelations(c), removed |-> << >>]]

IntersectFrom(st, a, order, relOrder) ==
    IntersectFinish(IntersectLinks(st.c, a, order, 1, st.name_to_new_id),
                    relOrder)

\* intersect_concepts(a, b, new_name), with shared_names iterated in `order`
\* and shared_rels in `relOrder`.
IntersectConcepts(a, b, new_name, cid, used, order, relOrder) ==
    IntersectFrom(
        IntersectCopy([c |-> CopyConceptShallow(a, new_name, cid),
                       name_to_new_id |-> << >>],
                      a, order, 1, used),
        a, order, relOrder)

\* subtract_concepts: keep = [e for e in a's ensembles if e.name not in nb]
Keep(a, b) ==
    SelectSeq(EnsSeq(a), LAMBDA e : e.name \notin EnsembleNameSet(b))

RECURSIVE SubtractCopy(_, _, _, _)
SubtractCopy(st, keep, i, used) ==
    IF i > Len(keep) THEN st
    ELSE LET id == FreshId(used \cup EnsIds(st.c))
         IN  SubtractCopy(
                [c |-> AddEnsembleOp(st.c, CopyEnsemble(keep[i], keep[i].name, id)),
                 name_to_new |->
                    [n \in DOMAIN st.name_to_new \cup {keep[i].name} |->
                        IF n = keep[i].name THEN id ELSE st.name_to_new[n]]],
                keep, i + 1, used)

RECURSIVE SubtractLinks(_, _, _, _, _)
SubtractLinks(c, a, keep, i, name_to_new) ==
    IF i > Len(keep) THEN [c |-> c, status |-> "ok"]
    ELSE IF GetEnsemble(c, keep[i].name) = NoneId
         THEN SubtractLinks(c, a, keep, i + 1, name_to_new)
         ELSE LET se == EnsById(c, GetEnsemble(c, keep[i].name))
                  r == RecreateLinksOf(se.links, keep[i].links, 1, a, name_to_new)
                  c2 == SetEnsemble(c, [se EXCEPT !.links = r.links])
              IN  IF r.status # "ok" THEN [c |-> c2, status |-> r.status]
                  ELSE SubtractLinks(c2, a, keep, i + 1, name_to_new)

SubtractFinish(r) ==
    [c |-> IF r.status = "ok" THEN r.c ELSE NoConcept, status |-> r.status,
     delta |-> [added |-> << >>, removed |-> << >>]]
SubtractFrom(st, a, keep) ==
    SubtractFinish(SubtractLinks(st.c, a, keep, 1, st.name_to_new))

\* subtract_concepts(a, b, new_name)
SubtractConcepts(a, b, new_name, cid, used) ==
    SubtractFrom(
        SubtractCopy([c |-> CopyConceptShallow(a, new_name, cid),
                      name_to_new |-> << >>],
                     Keep(a, b), 1, used),
        a, Keep(a, b))


(***************************************************************************)
(* Driver of the concept algebra: concept A is built ensemble by ensemble  *)
(* and link by link, concept B is one of a few ready-made concepts, and    *)
(* one operation is then applied to them in either order; the concept it   *)
(* returns may be saved and loaded again.                                  *)
(***************************************************************************)
AlgebraInputs ==
    {<<"x", "vision", <<1, 0>>>>, <<"y", "audio", <<0, 1>>>>,
     <<"x__B", "touch", <<1, 1>>>>}
RelationInputs ==
    {<<"IS_A", IdOther, "d1">>, <<"IS_A", IdOther, "d2">>,
     <<"IS_A", IdA, "d1">>, <<"HAS", IdOther, "d1">>}

\* A ready-made concept, put together as seed_concepts.py does; `used` are
\* the ensemble identities of the concepts made before it.
WithEnsemble(c, inp, used) ==
    AddEnsembleOp(c, NewEnsemble(FreshId(used \cup EnsIds(c)),
                                 inp[1], inp[2], inp[3], ""))
WithLink(c, sname, tname, w) ==
    SetEnsemble(c, AddLinkOp(EnsById(c, GetEnsemble(c, sname)),
                             GetEnsemble(c, tname), w))
WithDanglingLink(c, sname, w) ==
    SetEnsemble(c, AddLinkOp(EnsById(c, GetEnsemble(c, sname)), IdDangling, w))
EmptyConcept(cid, name) ==
    NewConcept(cid, name, "", << >>, DefaultGain, DefaultThreshold)
ConceptXZ ==
    WithLink(WithEnsemble(WithEnsemble(EmptyConcept(IdB, "B"),
                                       <<"x", "audio", <<0, 2>>>>, {}),
                          <<"z", "touch", <<1, 1>>>>, {}),
             "x", "z", <<1, 2>>)
ConceptInputsB ==
    {EmptyConcept(IdB, "B"),
     AddRelationshipOp(ConceptXZ, "IS_A", IdOther, "b is other"),
     WithLink(WithEnsemble(WithEnsemble(EmptyConcept(IdB, "B"),
                                        <<"y", "audio", <<0, 2>>>>, {}),
                           <<"x", "audio", <<0, 2>>>>, {}),
              "y", "x", <<1, 1>>)}
ConceptInputsA(used) ==
    {WithLink(WithEnsemble(WithEnsemble(EmptyConcept(IdA, "A"),
                                        <<"x", "vision", <<1, 0>>>>, used),
                           <<"y", "audio", <<0, 1>>>>, used),
              "x", "y", <<1, 2>>),
     WithDanglingLink(WithEnsemble(EmptyConcept(IdA, "A"),
                                   <<"x", "vision", <<1, 0>>>>, used),
                      "x", <<1, 2>>)}

Building == cCall.op \in {"init", "add_ensemble", "add_link", "add_relationship"}
Operands == {<<"A", "B">>, <<"B", "A">>}
AlgebraOps == {"merge", "intersect", "subtract"}

\* c.add_relationship(relation_type, target, description)
AddRelationship(slot, rel) ==
    /\ Len(pool[slot].relationships) < MaxRels
    /\ pool' = [pool EXCEPT ![slot] = AddRelationshipOp(@, rel[1], rel[2], rel[3])]
    /\ cCall' = [op |-> "add_relationship", slot |-> slot]
    /\ UNCHANGED <<result, nCalls>>
    /\ UNCHANGED heap
    /\ UNCHANGED rtVars

\* An operation whose result is its first operand itself, written in place.
ReturnedMutInPlace(op, sa, sb, o) ==
    /\ result' = IF o.status = "ok" THEN o.c ELSE result
    /\ cCall' = [op |-> op, a |-> sa, b |-> sb, status |-> o.status,
                 delta |-> o.delta]
    /\ pool' = [pool EXCEPT ![sa] = IF o.status = "ok" THEN o.c ELSE @]
    /\ UNCHANGED nCalls
    /\ UNCHANGED heap
    /\ UNCHANGED rtVars

\* The effect of an operation that returns (concept, delta, notes) or raises;
\* the notes text is for display and is not modelled.
Returned(op, sa, sb, o) ==
    /\ result' = IF o.status = "ok" THEN o.c ELSE result
    /\ cCall' = [op |-> op, a |-> sa, b |-> sb, status |-> o.status,
                 delta |-> o.delta]
    /\ UNCHANGED <<pool, nCalls>>
    /\ UNCHANGED heap
    /\ UNCHANGED rtVars

\* result, delta, notes = merge_concepts(a, b)
Merge(sa, sb) ==
    \E o \in {MergeConcepts(pool[sa], pool[sb], "Merged", IdR, AllEnsIds)} :
       Returned("merge", sa, sb, o)

\* result, delta, notes = intersect_concepts(a, b)
Intersect(sa, sb) ==
    \E order \in Perms(EnsembleNameSet(pool[sa]) \cap EnsembleNameSet(pool[sb])),
       relOrder \in Perms(SharedRels(pool[sa], pool[sb])) :
       \E o \in {IntersectConcepts(pool[sa], pool[sb], "Intersect", IdR,
                                   AllEnsIds, order, relOrder)} :
          Returned("intersect", sa, sb, o)

\* result, delta, notes = subtract_concepts(a, b)
Subtract(sa, sb) ==
    \E o \in {SubtractConcepts(pool[sa], pool[sb], "A_minus_B", IdR, AllEnsIds)} :
       Returned("subtract", sa, sb, o)

Loaded(src) == IF src = "R" THEN result ELSE pool[src]
\* result = Concept.from_engram(c.serialize_engram())
RoundTrip(src) ==
    /\ Loaded(src) # NoConcept
    /\ \E o \in {FromEngram(SerializeEngram(Loaded(src)))} :
          /\ result' = IF o.status = "ok" THEN o.c ELSE result
          /\ cCall' = [op |-> "round_trip", src |-> Loaded(src),
                       status |-> o.status]
    /\ UNCHANGED <<pool, nCalls>>
    /\ UNCHANGED heap
    /\ UNCHANGED rtVars

AlgebraInit ==
    /\ RTInitWith({"none"})
    /\ pool \in [A : {EmptyConcept(IdA, "A")}, B : ConceptInputsB]
    /\ result = NoConcept
    /\ cCall = [op |-> "init"]
    /\ nCalls = 0
    /\ heap = NoHeap

AlgebraNext ==
    \/ \E inp \in AlgebraInputs : Building /\ AddEnsemble("A", inp)
    \/ \E src \in EnsIds(pool["A"]), tgt \in EnsIds(pool["A"]) \cup {IdDangling} :
          /\ Building
          /\ LinkCount(pool["A"]) < MaxAlgLinks
          /\ AddLink("A", src, tgt, <<1, 2>>)
    \/ \E p \in Operands : Building /\ Merge(p[1], p[2])
    \/ \E p \in Operands : Building /\ Intersect(p[1], p[2])
    \/ \E p \in Operands : Building /\ Subtract(p[1], p[2])
    \/ \E src \in {"A", "B"} : Building /\ RoundTrip(src)
    \/ cCall.op \in AlgebraOps /\ RoundTrip("R")
SpecAlgebra == AlgebraInit /\ [][AlgebraNext]_vars

(***************************************************************************)
(* compare_concepts, bind_relation and diff_relations.                     *)
(***************************************************************************)
\* The texts found in relation tuples, in the order of Python's str "<".
StringsInOrder ==
    <<"", "HAS", "IS_A", "MERGED_FROM", "b is other", "d1", "d2",
      "shared relation", "source:A", "source:B">>
StrRank(s) == CHOOSE i \in DOMAIN StringsInOrder : StringsInOrder[i] = s

\* The sort key (x[0], x[1], x[2]) of a relation tuple; UUID texts have one
\* width and lower-case digits, so they compare as the identities do.
TupleKey(x) == <<StrRank(x[1]), ParseUuid(x[2]), StrRank(x[3])>>
TupleLess(x, y) ==
    LET kx == TupleKey(x)
        ky == TupleKey(y)
    IN  \/ kx[1] < ky[1]
        \/ kx[1] = ky[1] /\ kx[2] < ky[2]
        \/ kx[1] = ky[1] /\ kx[2] = ky[2] /\ kx[3] < ky[3]

\* A list in descending order.
SortedListMutDescending(S) ==
    CHOOSE s \in Perms(S) :
       \A i, j \in DOMAIN s : i < j => TupleLess(s[j], s[i])
\* list(S) followed by .sort(key=...)
SortedList(S) ==
    CHOOSE s \in Perms(S) :
       \A i, j \in DOMAIN s : i < j => TupleLess(s[i], s[j])

\* A diff by position: whatever after holds beyond the length of before.
DiffRelationsMutTail(before, after) ==
    [added |-> SubSeq(after, Len(before) + 1, Len(after)),
     removed |-> << >>]
\* diff_relations(before, after)
DiffRelations(before, after) ==
    [added |-> SortedList(Range(after) \ Range(before)),
     removed |-> SortedList(Range(before) \ Range(after))]

\* compare_concepts(a, b): no concept and an empty delta; the metrics are
\* reported in the notes text only.
CompareConcepts(a, b) ==
    [c |-> NoConcept, status |-> "ok",
     delta |-> [added |-> << >>, removed |-> << >>]]

\* bind_relation(a, b, relation_type, description): a after the call and
\* the delta returned.
BindRelationOp(a, b, relation_type, description) ==
    LET a2 == AddRelationshipOp(a, relation_type, b.concept_id, description)
    IN  [c |-> a2, status |-> "ok",
         delta |-> DiffRelations(ListRelations(a), ListRelations(a2))]

\* result, delta, notes = compare_concepts(a, b)
Compare(sa, sb) ==
    /\ result' = NoConcept
    /\ cCall' = [op |-> "compare", a |-> sa, b |-> sb, status |-> "ok",
                 delta |-> CompareConcepts(pool[sa], pool[sb]).delta]
    /\ UNCHANGED <<pool, nCalls>>
    /\ UNCHANGED heap
    /\ UNCHANGED rtVars

BindInputs == {<<"IS_A", "d1">>, <<"IS_A", "d2">>}
\* result, delta, notes = bind_relation(a, b, relation_type, description);
\* the concept returned is a itself.
BindRelation(sa, sb, relation_type, description) ==
    \E o \in {BindRelationOp(pool[sa], pool[sb], relation_type, description)} :
       /\ pool' = [pool EXCEPT ![sa] = o.c]
       /\ result' = o.c
       /\ cCall' = [op |-> "bind_relation", a |-> sa, b |-> sb,
                    status |-> o.status, delta |-> o.delta,
                    relation_type |-> relation_type,
                    description |-> description]
       /\ UNCHANGED nCalls
       /\ UNCHANGED heap
       /\ UNCHANGED rtVars

(***************************************************************************)
(* Driver of the relationship graph: two ready-made concepts are given     *)
(* relationship edges and the operations are then applied to them.         *)
(***************************************************************************)
RelationsInit ==
    /\ RTInitWith({"none"})
    /\ pool \in [A : ConceptInputsA(EnsIds(ConceptXZ)), B : {ConceptXZ}]
    /\ result = NoConcept
    /\ cCall = [op |-> "init"]
    /\ nCalls = 0
    /\ heap = NoHeap

RelationsNext ==
    \/ \E slot \in {"A", "B"}, rel \in RelationInputs :
          Building /\ AddRelationship(slot, rel)
    \/ \E p \in Operands : Building /\ Merge(p[1], p[2])
    \/ \E p \in Operands : Building /\ Intersect(p[1], p[2])
    \/ \E p \in Operands : Building /\ Subtract(p[1], p[2])
    \/ \E p \in Operands : Building /\ Compare(p[1], p[2])
    \/ \E p \in Operands, inp \in BindInputs :
          Building /\ BindRelation(p[1], p[2], inp[1], inp[2])
SpecRelations == RelationsInit /\ [][RelationsNext]_vars


(***************************************************************************)
(* Hebbian learning inside a concept, and the driver of the concept        *)
(* dynamics: a ready-made concept receives a bounded number of stimulate   *)
(* and learn_hebbian calls.                                                *)
(***************************************************************************)
\* min_activation=None
NoneArg == <<0, 0>>

\* A Hebbian update that does not skip the ensemble itself.
RECURSIVE HebbianMutSelf(_, _, _, _)
HebbianMutSelf(e, coactive_ids, learning_rate, k) ==
    IF k > Len(coactive_ids) THEN e
    ELSE HebbianMutSelf(
            [e EXCEPT !.links =
                DictSet(@, coactive_ids[k],
                        RAdd(DictGet(@, coactive_ids[k], RZero),
                             RMul(learning_rate, e.activation)))],
            coactive_ids, learning_rate, k + 1)

\* FeatureEnsemble.hebbian, from the k-th co-active identity on.
RECURSIVE Hebbian(_, _, _, _)
Hebbian(e, coactive_ids, learning_rate, k) ==
    IF k > Len(coactive_ids) THEN e
    ELSE IF coactive_ids[k] = e.ensemble_id
         THEN Hebbian(e, coactive_ids, learning_rate, k + 1)
         ELSE Hebbian(
                 [e EXCEPT !.links =
                     DictSet(@, coactive_ids[k],
                             RAdd(DictGet(@, coactive_ids[k], RZero),
                                  RMul(learning_rate, e.activation)))],
                 coactive_ids, learning_rate, k + 1)

\* thr of learn_hebbian
HebbThreshold(c, min_activation) ==
    IF min_activation = NoneArg THEN c.activation_threshold ELSE min_activation

\* coactive_ids = [eid for eid, e in ... if e.activation >= thr]
CoactiveIds(c, thr) ==
    LET act == SelectSeq(EnsSeq(c), LAMBDA e : RLe(thr, e.activation))
    IN  [k \in DOMAIN act |-> act[k].ensemble_id]

\* Concept.learn_hebbian
LearnHebbianOp(c, learning_rate, min_activation) ==
    LET thr == HebbThreshold(c, min_activation)
        ids == CoactiveIds(c, thr)
    IN  [c EXCEPT !.ensembles_by_id =
            [i \in DOMAIN @ |->
                IF RLe(thr, @[i].activation)
                THEN Hebbian(@[i], ids, learning_rate, 1)
                ELSE @[i]]]

\* c.learn_hebbian(learning_rate, min_activation)
LearnHebbian(slot, learning_rate, min_activation) ==
    /\ nCalls < MaxCalls
    /\ pool' = [pool EXCEPT ![slot] =
                   LearnHebbianOp(@, learning_rate, min_activation)]
    /\ cCall' = [op |-> "learn_hebbian", slot |-> slot, status |-> "ok",
                 learning_rate |-> learning_rate,
                 min_activation |-> min_activation, before |-> pool[slot]]
    /\ nCalls' = nCalls + 1
    /\ UNCHANGED result
    /\ UNCHANGED heap
    /\ UNCHANGED rtVars

InhibitionGainInputs == {<<1, 4>>, <<-1, 1>>, <<-2, 1>>}
LearningRateInputs == {<<1, 2>>, <<1, 20>>}
MinActivationInputs == {NoneArg, <<0, 1>>, <<1, 2>>}

\* Ensembles x, y, z with the links x -> y and z -> x.
ConceptXYZ(inhibition_gain) ==
    WithLink(
        WithLink(
            WithEnsemble(
                WithEnsemble(
                    WithEnsemble(NewConcept(IdA, "A", "", << >>, inhibition_gain,
                                            DefaultThreshold),
                                 <<"x", "vision", <<1, 0>>>>, {}),
                    <<"y", "audio", <<0, 1>>>>, {}),
                <<"z", "touch", <<1, 0>>>>, {}),
            "x", "y", <<1, 2>>),
        "z", "x", <<1, 2>>)

DynamicsInit ==
    /\ RTInitWith({"none"})
    /\ pool \in [A : {ConceptXYZ(g) : g \in InhibitionGainInputs},
                 B : {EmptyConcept(IdB, "B")}]
    /\ result = NoConcept
    /\ cCall = [op |-> "init"]
    /\ nCalls = 0
    /\ heap = NoHeap

DynamicsNext ==
    \/ \E cues \in CueInputs, gain \in GainInputs : Stimulate("A", cues, gain)
    \/ \E lr \in LearningRateInputs, ma \in MinActivationInputs :
          LearnHebbian("A", lr, ma)
SpecDynamics == DynamicsInit /\ [][DynamicsNext]_vars

(***************************************************************************)
(* Loading engrams that lack a key or hold a text that is no UUID.         *)
(***************************************************************************)
\* A text that uuid.UUID rejects.
MalformedUuid == "not-a-uuid"

\* What is done to the engram before it is loaded: a key is dropped from,
\* or a UUID text is spoilt in, the engram itself, its i-th ensemble, the
\* first link of its i-th ensemble or its i-th relationship.
DamageKinds ==
    {<<"drop", "concept", "concept_id">>, <<"drop", "concept", "name">>,
     <<"drop", "concept", "params">>,
     <<"drop", "ensemble", "ensemble_id">>, <<"drop", "ensemble", "name">>,
     <<"drop", "ensemble", "vector">>,
     <<"drop", "relationship", "type">>,
     <<"drop", "relationship", "target_concept_id">>,
     <<"spoil", "concept", "concept_id">>,
     <<"spoil", "ensemble", "ensemble_id">>,
     <<"spoil", "link", "target">>,
     <<"spoil", "relationship", "target_concept_id">>}

\* The damage has something to act on.
DamageApplies(data, kind, i) ==
    CASE kind[2] = "concept" -> i = 1
      [] kind[2] = "ensemble" -> i \in DOMAIN data.ensembles
      [] kind[2] = "link" ->
            i \in DOMAIN data.ensembles /\ data.ensembles[i].links # << >>
      [] kind[2] = "relationship" -> i \in DOMAIN data.relationships

Damaged(data, kind, i) ==
    CASE kind[2] = "concept" ->
            IF kind[1] = "drop" THEN DropKey(data, kind[3])
            ELSE [data EXCEPT ![kind[3]] = MalformedUuid]
      [] kind[2] = "ensemble" ->
            [data EXCEPT !.ensembles[i] =
                IF kind[1] = "drop" THEN DropKey(@, kind[3])
                ELSE [@ EXCEPT ![kind[3]] = MalformedUuid]]
      [] kind[2] = "link" ->
            [data EXCEPT !.ensembles[i].links[1] = <<MalformedUuid, @[2]>>]
      [] kind[2] = "relationship" ->
            [data EXCEPT !.relationships[i] =
                IF kind[1] = "drop" THEN DropKey(@, kind[3])
                ELSE [@ EXCEPT ![kind[3]] = MalformedUuid]]

\* data = c.serialize_engram(); the damage is done to data;
\* result = Concept.from_engram(data)
LoadDamaged(src, kind, i) ==
    /\ DamageApplies(SerializeEngram(pool[src]), kind, i)
    /\ \E o \in {FromEngram(Damaged(SerializeEngram(pool[src]), kind, i))} :
          /\ result' = IF o.status = "ok" THEN o.c ELSE result
          /\ cCall' = [op |-> "from_engram", src |-> src, kind |-> kind,
                       i |-> i, status |-> o.status]
    /\ UNCHANGED <<pool, nCalls>>
    /\ UNCHANGED heap
    /\ UNCHANGED rtVars

EngramNext ==
    \/ \E rel \in RelationInputs : Building /\ AddRelationship("A", rel)
    \/ \E kind \in DamageKinds, i \in 1..MaxEns :
          Building /\ LoadDamaged("A", kind, i)
SpecEngram == RelationsInit /\ [][EngramNext]_vars

(***************************************************************************)
(* diff_relations between the relation lists of two concepts.              *)
(***************************************************************************)
\* diff_relations(list_relations(a), list_relations(b))
DiffCall(sa, sb) ==
    /\ cCall' = [op |-> "diff_relations", a |-> sa, b |-> sb, status |-> "ok",
                 delta |-> DiffRelations(ListRelations(pool[sa]),
                                         ListRelations(pool[sb]))]
    /\ UNCHANGED <<pool, result, nCalls>>
    /\ UNCHANGED heap
    /\ UNCHANGED rtVars

DiffNext ==
    \/ \E slot \in {"A", "B"}, rel \in RelationInputs :
          Building /\ AddRelationship(slot, rel)
    \/ \E p \in Operands : Building /\ DiffCall(p[1], p[2])
SpecDiff == RelationsInit /\ [][DiffNext]_vars

(***************************************************************************)
(* Concept.recall_partial                                                  *)
(***************************************************************************)
\* An insertion that puts an item before the items of equal activation.
RecallInsertMutBeforeTies(sorted, item) ==
    LET k == Cardinality({i \in DOMAIN sorted : RLt(item[2], sorted[i][2])})
    IN  SubSeq(sorted, 1, k) \o <<item>> \o SubSeq(sorted, k + 1, Len(sorted))
\* The place of an item in a list sorted by key=x[1], reverse=True: behind
\* the items that are not smaller (the sort is stable).
RecallInsert(sorted, item) ==
    LET k == Cardinality({i \in DOMAIN sorted : RLe(item[2], sorted[i][2])})
    IN  SubSeq(sorted, 1, k) \o <<item>> \o SubSeq(sorted, k + 1, Len(sorted))

\* items.sort(key=lambda x: x[1], reverse=True), on the first n items.
RECURSIVE RecallSorted(_, _)
RecallSorted(items, n) ==
    IF n = 0 THEN << >>
    ELSE RecallInsert(RecallSorted(items, n - 1), items[n])

\* items[:top_k]
SliceTo(items, top_k) ==
    LET stop == IF top_k >= 0
                THEN (IF top_k < Len(items) THEN top_k ELSE Len(items))
                ELSE (IF Len(items) + top_k > 0 THEN Len(items) + top_k ELSE 0)
    IN  SubSeq(items, 1, stop)

RecallPartialOp(c, top_k) ==
    LET items == [i \in DOMAIN EnsSeq(c) |->
                     <<EnsSeq(c)[i].name, EnsSeq(c)[i].activation>>]
    IN  SliceTo(RecallSorted(items, Len(items)), top_k)

TopKInputs == -1..(MaxEns + 2)

\* c.recall_partial(top_k)
RecallPartial(slot, top_k) ==
    /\ cCall' = [op |-> "recall_partial", slot |-> slot, status |-> "ok",
                 top_k |-> top_k, ret |-> RecallPartialOp(pool[slot], top_k)]
    /\ UNCHANGED <<pool, result, nCalls>>
    /\ UNCHANGED heap
    /\ UNCHANGED rtVars

RecallNext ==
    \/ \E cues \in CueInputs, gain \in GainInputs : Stimulate("A", cues, gain)
    \/ \E top_k \in TopKInputs : RecallPartial("A", top_k)
SpecRecall == DynamicsInit /\ [][RecallNext]_vars

(***************************************************************************)
(* FeatureEnsemble.decay and Concept.decay_all, on binary64 activations.   *)
(***************************************************************************)
\* f = max(0.0, min(1.0, fraction))
ClampFraction(fraction) ==
    LET least == IF FLess(fraction, FOne) THEN fraction ELSE FOne
    IN  IF FLess(FZero, least) THEN least ELSE FZero

\* A decay that takes the fraction as it is given.
DecayOpMutNoClamp(e, fraction) ==
    [e EXCEPT !.activation = FMul(@, FSub(FOne, fraction))]
\* e.decay(fraction): self.activation *= (1.0 - f)
DecayOp(e, fraction) ==
    [e EXCEPT !.activation = FMul(@, FSub(FOne, ClampFraction(fraction)))]

\* c.decay_all(fraction): e.decay(fraction=fraction) for every ensemble.
DecayAllOp(c, fraction) ==
    [c EXCEPT !.ensembles_by_id =
        [i \in DOMAIN @ |-> DecayOp(@[i], fraction)]]

\* The history of a run of decay_all calls: the fractions so far, and the
\* concept they started from.
DecayFractions == IF cCall.op = "decay_all" THEN cCall.fractions ELSE << >>
DecayStart(slot) == IF cCall.op = "decay_all" THEN cCall.start ELSE pool[slot]

DecayAll(slot, fraction) ==
    /\ nCalls < MaxCalls
    /\ pool' = [pool EXCEPT ![slot] = DecayAllOp(@, fraction)]
    /\ cCall' = [op |-> "decay_all", slot |-> slot, status |-> "ok",
                 fractions |-> Append(DecayFractions, fraction),
                 start |-> DecayStart(slot)]
    /\ nCalls' = nCalls + 1
    /\ UNCHANGED result
    /\ UNCHANGED heap
    /\ UNCHANGED rtVars

\* Fractions below, inside, at the ends of and above [0, 1].
FractionInputs ==
    {FFromRatio(r[1], r[2]) :
        r \in {<<-1, 1>>, <<0, 1>>, <<1, 10>>, <<1, 5>>, <<1, 1>>, <<2, 1>>}}
\* Activations the ensembles start with.
ActivationInputs == {FFromRatio(r[1], r[2]) : r \in {<<3, 10>>, <<1, 1>>, <<-1, 2>>}}

\* e.activation = a for the ensemble called name.
WithActivation(c, name, a) ==
    SetEnsemble(c, [EnsById(c, GetEnsemble(c, name)) EXCEPT !.activation = a])

\* Ensembles x and y with the activations ax and ay.
ConceptDecaying(ax, ay) ==
    WithActivation(
        WithActivation(
            WithEnsemble(
                WithEnsemble(EmptyConcept(IdA, "A"),
                             <<"x", "vision", <<1, 0>>>>, {}),
                <<"y", "audio", <<0, 1>>>>, {}),
            "x", ax),
        "y", ay)

DecayInit ==
    /\ RTInitWith({"none"})
    /\ pool \in [A : {ConceptDecaying(ax, ay) :
                         ax \in ActivationInputs, ay \in ActivationInputs},
                 B : {EmptyConcept(IdB, "B")}]
    /\ result = NoConcept
    /\ cCall = [op |-> "init"]
    /\ nCalls = 0
    /\ heap = NoHeap

DecayNext == \E fraction \in FractionInputs : DecayAll("A", fraction)
SpecDecay == DecayInit /\ [][DecayNext]_vars

(***************************************************************************)
(* stimulate, decay_all and learn_hebbian in any order on one concept,     *)
(* with the activations in exact arithmetic as in stimulate.               *)
(***************************************************************************)
\* A decay that also forgets the ensemble's links.
DecayExactMutForgetsLinks(e, fraction) ==
    [e EXCEPT !.activation = RMul(@, RSub(ROne, RMax(RZero, RMin(ROne, fraction)))),
              !.links = << >>]
\* e.decay(fraction): f = max(0.0, min(1.0, fraction)); activation *= 1.0 - f
DecayExact(e, fraction) ==
    [e EXCEPT !.activation = RMul(@, RSub(ROne, RMax(RZero, RMin(ROne, fraction))))]

\* c.decay_all(fraction)
DecayAllExact(slot, fraction) ==
    /\ nCalls < MaxCalls
    /\ pool' = [pool EXCEPT ![slot] =
                   [@ EXCEPT !.ensembles_by_id =
                       [i \in DOMAIN @ |-> DecayExact(@[i], fraction)]]]
    /\ cCall' = [op |-> "decay_all", slot |-> slot, status |-> "ok",
                 fraction |-> fraction, before |-> pool[slot]]
    /\ nCalls' = nCalls + 1
    /\ UNCHANGED result
    /\ UNCHANGED heap
    /\ UNCHANGED rtVars

ExactFractionInputs == {<<-1, 1>>, <<1, 2>>, <<2, 1>>}

\* The concept the calls are made on: x, y, z linked x -> y and z -> x, with
\* a relationship to concept B, and with or without a link from y to an
\* ensemble the concept does not hold.
FrameConcepts ==
    LET related(g) == AddRelationshipOp(ConceptXYZ(g), "is_a", IdB, "")
    IN  {related(g) : g \in InhibitionGainInputs}
           \cup {WithDanglingLink(related(DefaultGain), "y", <<1, 2>>)}

FrameInit ==
    /\ RTInitWith({"none"})
    /\ pool \in [A : FrameConcepts, B : {EmptyConcept(IdB, "B")}]
    /\ result = NoConcept
    /\ cCall = [op |-> "init"]
    /\ nCalls = 0
    /\ heap = NoHeap

FrameNext ==
    \/ \E cues \in CueInputs, gain \in GainInputs : Stimulate("A", cues, gain)
    \/ \E fraction \in ExactFractionInputs : DecayAllExact("A", fraction)
    \/ \E lr \in LearningRateInputs, ma \in MinActivationInputs :
          LearnHebbian("A", lr, ma)
SpecFrame == FrameInit /\ [][FrameNext]_vars

(***************************************************************************)
(* Containers as Python objects.  Above, a concept is a value; here each   *)
(* list and dict of a concept and of its ensembles is an object with a     *)
(* reference (a position of heap.store), so that two instances can hold    *)
(* one and the same container.  heap.roots maps a slot ("A", "B", "L" for  *)
(* a loaded concept, "R" for a derived one) to an instance: the concept    *)
(* value it was made from (skel, read for its scalar fields only) and the  *)
(* references of its containers.                                           *)
(***************************************************************************)
NoRef == 0

\* The containers of concept value c, in the order they are created in.
Containers(c) ==
    <<[f |-> "metadata", i |-> 0, v |-> c.metadata],
      [f |-> "ensembles_by_id", i |-> 0,
       v |-> [i \in DOMAIN EnsSeq(c) |-> EnsSeq(c)[i].ensemble_id]],
      [f |-> "ensembles_by_name", i |-> 0, v |-> c.ensembles_by_name],
      [f |-> "relationships", i |-> 0, v |-> c.relationships]>>
    \o [i \in DOMAIN EnsSeq(c) |->
           [f |-> "vector", i |-> i, v |-> EnsSeq(c)[i].vector]]
    \o [i \in DOMAIN EnsSeq(c) |->
           [f |-> "links", i |-> i, v |-> EnsSeq(c)[i].links]]

\* Nothing is handed to the constructors: every container is a new object.
NothingGiven(c) ==
    [metadata |-> NoRef, vector |-> [i \in DOMAIN EnsSeq(c) |-> NoRef]]

\* Container d is an object handed to the constructor, which keeps it:
\* Concept.__init__ keeps a metadata dict that is not empty
\* (metadata or {"version": "3.0"}), FeatureEnsemble keeps its vector.
IsGiven(d, given, store) ==
    \/ /\ d.f = "metadata"
       /\ given.metadata # NoRef
       /\ DOMAIN store[given.metadata] # {}
    \/ d.f = "vector" /\ given.vector[d.i] # NoRef

\* The instance made for concept value c, and the store with its new
\* containers: a given container is referred to, any other is created.
Instantiate(store, c, given) ==
    LET new == SelectSeq(Containers(c), LAMBDA d : ~IsGiven(d, given, store))
        RefOf(f, i) ==
            IF \E j \in DOMAIN new : new[j].f = f /\ new[j].i = i
            THEN Len(store)
                    + (CHOOSE j \in DOMAIN new : new[j].f = f /\ new[j].i = i)
            ELSE IF f = "metadata" THEN given.metadata ELSE given.vector[i]
    IN  [store |-> store \o [j \in DOMAIN new |-> new[j].v],
         inst |-> [skel |-> c,
                   metadata |-> RefOf("metadata", 0),
                   ensembles_by_id |-> RefOf("ensembles_by_id", 0),
                   ensembles_by_name |-> RefOf("ensembles_by_name", 0),
                   relationships |-> RefOf("relationships", 0),
                   vector |-> [i \in DOMAIN EnsSeq(c) |-> RefOf("vector", i)],
                   links |-> [i \in DOMAIN EnsSeq(c) |-> RefOf("links", i)]]]

\* What the instance in slot s reads as: its scalars, and the present
\* contents of the containers it refers to.
ValueOf(h, s) ==
    LET inst == h.roots[s]
    IN  [inst.skel EXCEPT
            !.metadata = h.store[inst.metadata],
            !.ensembles_by_name = h.store[inst.ensembles_by_name],
            !.relationships = h.store[inst.relationships],
            !.ensembles_by_id =
                [i \in DOMAIN h.store[inst.ensembles_by_id] |->
                    [inst.skel.ensembles_by_id[i] EXCEPT
                        !.vector = h.store[inst.vector[i]],
                        !.links = h.store[inst.links[i]]]]]

\* The ensemble identities in existence.
HeapEnsIds(h) == UNION {EnsIds(h.roots[s].skel) : s \in DOMAIN h.roots}

\* heap with the instance of an outcome put into slot s.
Rooted(h, s, made) ==
    [h EXCEPT !.store = made.store,
              !.roots = [t \in DOMAIN h.roots \cup {s} |->
                            IF t = s THEN made.inst ELSE h.roots[t]]]

\* loaded = Concept.from_engram(src.serialize_engram()): the engram holds
\* src's own metadata dict and its ensembles' own vector lists, and
\* from_engram hands them to the constructors.
LoadObj(src) ==
    /\ "L" \notin DOMAIN heap.roots
    /\ \E o \in {FromEngram(SerializeEngram(ValueOf(heap, src)))} :
          /\ heap' = IF o.status # "ok" THEN heap
                     ELSE Rooted(heap, "L",
                             Instantiate(heap.store, o.c,
                                [metadata |-> heap.roots[src].metadata,
                                 vector |-> heap.roots[src].vector]))
          /\ cCall' = [op |-> "from_engram", slot |-> "L", src |-> src,
                       status |-> o.status]
    /\ UNCHANGED <<pool, result, nCalls>>
    /\ UNCHANGED rtVars

\* The effect on the objects of an operation of the algebra: the metadata
\* is a deepcopy, each vector a list(...) copy, every other container new.
DerivedObj(op, sa, sb, o) ==
    /\ "R" \notin DOMAIN heap.roots
    /\ heap' = IF o.status # "ok" THEN heap
               ELSE Rooted(heap, "R",
                           Instantiate(heap.store, o.c, NothingGiven(o.c)))
    /\ cCall' = [op |-> op, slot |-> "R", a |-> sa, b |-> sb,
                 status |-> o.status]
    /\ UNCHANGED <<pool, result, nCalls>>
    /\ UNCHANGED rtVars

MergeObj(sa, sb) ==
    \E o \in {MergeConcepts(ValueOf(heap, sa), ValueOf(heap, sb), "Merged",
                            IdR, HeapEnsIds(heap))} :
       DerivedObj("merge", sa, sb, o)

IntersectObj(sa, sb) ==
    \E order \in Perms(EnsembleNameSet(ValueOf(heap, sa))
                          \cap EnsembleNameSet(ValueOf(heap, sb))),
       relOrder \in Perms(SharedRels(ValueOf(heap, sa), ValueOf(heap, sb))) :
       \E o \in {IntersectConcepts(ValueOf(heap, sa), ValueOf(heap, sb),
                                   "Intersect", IdR, HeapEnsIds(heap),
                                   order, relOrder)} :
          DerivedObj("intersect", sa, sb, o)

SubtractObj(sa, sb) ==
    \E o \in {SubtractConcepts(ValueOf(heap, sa), ValueOf(heap, sb),
                               "A_minus_B", IdR, HeapEnsIds(heap))} :
       DerivedObj("subtract", sa, sb, o)

\* The writes a caller makes through one instance.
WriteKinds == {"metadata", "vector", "links", "relationships"}

\* The container a write through instance inst goes to.
WrittenRef(inst, kind, i) ==
    CASE kind = "metadata" -> inst.metadata
      [] kind = "relationships" -> inst.relationships
      [] kind = "vector" -> inst.vector[i]
      [] kind = "links" -> inst.links[i]

\* c.metadata["note"] = "set"; e.vector[0] = 9;
\* e.add_link(target, 1/2); c.add_relationship("IS_A", other, "d1")
Written(old, kind) ==
    CASE kind = "metadata" ->
            [k \in DOMAIN old \cup {"note"} |->
                IF k = "note" THEN "set" ELSE old[k]]
      [] kind = "vector" -> [old EXCEPT ![1] = 9]
      [] kind = "links" ->
            DictSet(old, IdDangling, RAdd(DictGet(old, IdDangling, RZero), <<1, 2>>))
      [] kind = "relationships" ->
            Append(old, [relation_type |-> "IS_A",
                         target_concept_id |-> IdOther,
                         description |-> "d1"])

\* One write through the instance in slot s, on its ensemble i where the
\* container is an ensemble's.
WriteObj(s, kind, i) ==
    /\ heap.writes < MaxWrites
    /\ s \in DOMAIN heap.roots
    /\ kind \in {"vector", "links"} => i \in DOMAIN heap.roots[s].vector
    /\ kind \notin {"vector", "links"} => i = 1
    /\ kind = "vector" => Len(heap.store[heap.roots[s].vector[i]]) > 0
    /\ kind = "relationships" =>
          Len(heap.store[heap.roots[s].relationships]) < MaxRels
    /\ LET ref == WrittenRef(heap.roots[s], kind, i)
       IN  heap' = [heap EXCEPT !.store[ref] = Written(@, kind),
                                !.writes = @ + 1]
    /\ cCall' = [op |-> "write", slot |-> s, kind |-> kind, i |-> i]
    /\ UNCHANGED <<pool, result, nCalls>>
    /\ UNCHANGED rtVars

\* Two concepts built by the driver, each container of theirs a new object.
Built(a, b) ==
    LET ma == Instantiate(<< >>, a, NothingGiven(a))
        mb == Instantiate(ma.store, b, NothingGiven(b))
    IN  [store |-> mb.store, roots |-> [A |-> ma.inst, B |-> mb.inst],
         writes |-> 0]

ObjectsInit ==
    /\ RTInitWith({"none"})
    /\ pool \in [A : ConceptInputsA(EnsIds(ConceptXZ)), B : {ConceptXZ}]
    /\ result = NoConcept
    /\ cCall = [op |-> "init"]
    /\ nCalls = 0
    /\ heap = Built(pool["A"], pool["B"])

ObjectsNext ==
    \/ \E src \in {"A", "B"} : LoadObj(src)
    \/ \E p \in Operands : MergeObj(p[1], p[2])
    \/ \E p \in Operands : IntersectObj(p[1], p[2])
    \/ \E p \in Operands : SubtractObj(p[1], p[2])
    \/ \E s \in {"A", "B", "L", "R"}, kind \in WriteKinds, i \in 1..MaxEns :
          WriteObj(s, kind, i)
SpecObjects == ObjectsInit /\ [][ObjectsNext]_vars

(***************************************************************************)
(* Reference notions the claims on the concept algebra are stated with.    *)
(***************************************************************************)
\* The concepts an operation of the algebra was applied to.
ArgA == pool[cCall.a]
ArgB == pool[cCall.b]

\* The ensembles of a and b an operation copies into its result.
CopiedEnsembles(op, a, b) ==
    CASE op = "merge" ->
            Range(EnsSeq(a)) \cup Range(EnsSeq(b))
      [] op = "intersect" ->
            {e \in Range(EnsSeq(a)) :
                /\ e.name \in EnsembleNameSet(b)
                /\ GetEnsemble(a, e.name) = e.ensemble_id}
      [] op = "subtract" -> Range(Keep(a, b))

\* A copied ensemble of a (or, for merge, of b) has a dangling link.
CopiesDangling(op, a, b) ==
    \E e \in CopiedEnsembles(op, a, b) :
       \E l \in Range(e.links) :
          IF e \in Range(EnsSeq(a)) THEN l[1] \notin EnsIds(a)
                                    ELSE l[1] \notin EnsIds(b)

\* The name index and the identity map of c agree.
IndexAgrees(c) ==
    /\ \A n \in DOMAIN c.ensembles_by_name :
          /\ c.ensembles_by_name[n] \in EnsIds(c)
          /\ EnsById(c, c.ensembles_by_name[n]).name = n
    /\ \A e \in Range(EnsSeq(c)) :
          /\ e.name \in DOMAIN c.ensembles_by_name
          /\ c.ensembles_by_name[e.name] = e.ensemble_id

\* The link map of an ensemble: target identity -> weight.
LinkMap(e) == {<<e.links[j][1], e.links[j][2]>> : j \in DOMAIN e.links}

(***************************************************************************)
(* C5: merge, intersect and subtract, applied to a concept in which a      *)
(* copied ensemble has a dangling link, complete without failure and the   *)
(* result carries no copy of that link.                                    *)
(***************************************************************************)
C5_DanglingLinkNotCopied ==
    (cCall.op \in AlgebraOps /\ CopiesDangling(cCall.op, ArgA, ArgB)) =>
        /\ cCall.status = "ok"
        /\ DanglingLinks(result) = {}

(***************************************************************************)
(* C6: in every concept reached by add_ensemble, from_engram, merge,       *)
(* intersect and subtract the name index and the identity map agree:       *)
(* every name maps to a present ensemble carrying that name, and every     *)
(* ensemble is the one its name maps to.                                   *)
(***************************************************************************)
C6_NameIndexAgrees ==
    \A c \in {pool["A"], pool["B"], result} \ {NoConcept} : IndexAgrees(c)

(***************************************************************************)
(* C7: from_engram(serialize_engram(c)) returns a concept with c's         *)
(* concept identity, c's ensemble identities each with the same name,      *)
(* modality and vector, the same link map per ensemble, the same ordered   *)
(* relationship tuples and the same inhibition_gain and                    *)
(* activation_threshold.                                                   *)
(***************************************************************************)
C7_EngramRoundTrip ==
    cCall.op = "round_trip" =>
        /\ cCall.status = "ok"
        /\ result.concept_id = cCall.src.concept_id
        /\ EnsIds(result) = EnsIds(cCall.src)
        /\ Len(EnsSeq(result)) = Len(EnsSeq(cCall.src))
        /\ \A id \in EnsIds(cCall.src) :
              /\ EnsById(result, id).name = EnsById(cCall.src, id).name
              /\ EnsById(result, id).modality = EnsById(cCall.src, id).modality
              /\ EnsById(result, id).vector = EnsById(cCall.src, id).vector
              /\ LinkMap(EnsById(result, id)) = LinkMap(EnsById(cCall.src, id))
              /\ Len(EnsById(result, id).links) = Len(EnsById(cCall.src, id).links)
        /\ ListRelations(result) = ListRelations(cCall.src)
        /\ result.relationships = cCall.src.relationships
        /\ result.inhibition_gain = cCall.src.inhibition_gain
        /\ result.activation_threshold = cCall.src.activation_threshold

\* A round trip of a concept with two ensembles, a link between them, a
\* dangling link aside or not, and two relationship edges.
C7_Witness ==
    /\ cCall.op = "round_trip"
    /\ Len(EnsSeq(cCall.src)) >= 2
    /\ \E e \in Range(EnsSeq(cCall.src)) :
          \E l \in Range(e.links) : l[1] \in EnsIds(cCall.src) /\ l[2] # RZero
    /\ Len(cCall.src.relationships) >= 2
    /\ result # NoConcept


\* The links of c between ensembles of c, as (source name, target name, weight).
NamedLinks(c) ==
    UNION {{<<e.name, EnsById(c, l[1]).name, l[2]>> :
               l \in {k \in Range(e.links) : k[1] \in EnsIds(c)}} :
           e \in Range(EnsSeq(c))}

\* Every link of src between two of its ensembles is found in r between the
\* copies, the copy of the i-th ensemble of src being the (off+i)-th of r.
LinksCopied(r, src, off) ==
    \A i \in DOMAIN EnsSeq(src) :
       \A l \in Range(EnsSeq(src)[i].links) :
          l[1] \in EnsIds(src) =>
             <<EnsSeq(r)[off + EnsIndex(src, l[1])].ensemble_id, l[2]>>
                \in LinkMap(EnsSeq(r)[off + i])

(***************************************************************************)
(* C8: a merge that returns has one ensemble per ensemble of a plus one    *)
(* per ensemble of b, a b-ensemble whose name collides being present with  *)
(* the suffix __B, and every link of a between two a-ensembles and every   *)
(* link of b between two b-ensembles, collided or not, is in the result    *)
(* between the corresponding copies with the same weight.                  *)
(***************************************************************************)
C8_MergeKeepsAllLinks ==
    (cCall.op = "merge" /\ cCall.status = "ok") =>
        /\ Len(EnsSeq(result)) = Len(EnsSeq(ArgA)) + Len(EnsSeq(ArgB))
        /\ \A e \in Range(EnsSeq(ArgB)) :
              e.name \in EnsembleNameSet(ArgA) =>
                 \E c \in Range(EnsSeq(result)) :
                    /\ c.name = e.name \o "__B"
                    /\ c.modality = e.modality /\ c.vector = e.vector
        /\ LinksCopied(result, ArgA, 0)
        /\ LinksCopied(result, ArgB, Len(EnsSeq(ArgA)))

(***************************************************************************)
(* C9: intersect returns a concept whose ensemble names are exactly        *)
(* names(a) \cap names(b), each ensemble with the modality and vector of   *)
(* a's ensemble of that name, and whose links are exactly a's links with   *)
(* source and target names both in the intersection, with a's weights.     *)
(***************************************************************************)
C9_IntersectEnsemblesAndLinks ==
    cCall.op = "intersect" =>
        /\ cCall.status = "ok"
        /\ {e.name : e \in Range(EnsSeq(result))} =
              EnsembleNameSet(ArgA) \cap EnsembleNameSet(ArgB)
        /\ \A e \in Range(EnsSeq(result)) :
              \A ea \in Range(EnsSeq(ArgA)) :
                 ea.name = e.name =>
                    e.modality = ea.modality /\ e.vector = ea.vector
        /\ NamedLinks(result) =
              {l \in NamedLinks(ArgA) :
                  /\ l[1] \in EnsembleNameSet(ArgB)
                  /\ l[2] \in EnsembleNameSet(ArgB)}
        /\ DanglingLinks(result) = {}


\* The (type, target) pairs of the edges of c.
EdgePairs(c) ==
    {<<c.relationships[i].relation_type, c.relationships[i].target_concept_id>> :
        i \in DOMAIN c.relationships}

(***************************************************************************)
(* C10: in the result of intersect(a, b) an edge with type T and target X  *)
(* is present iff both a and b have an edge with type T and target X,      *)
(* whatever the descriptions; each such (T, X) is present once, with the   *)
(* description "shared relation"; the delta returned lists the result's    *)
(* full edge list as added and nothing as removed.                         *)
(***************************************************************************)
C10_IntersectRelations ==
    (cCall.op = "intersect" /\ cCall.status = "ok") =>
        /\ EdgePairs(result) = EdgePairs(ArgA) \cap EdgePairs(ArgB)
        /\ Len(result.relationships) = Cardinality(EdgePairs(result))
        /\ \A i \in DOMAIN result.relationships :
              result.relationships[i].description = "shared relation"
        /\ cCall.delta.added = ListRelations(result)
        /\ Len(cCall.delta.added) = Len(result.relationships)
        /\ cCall.delta.removed = << >>

\* An intersect whose operands share a (T, X) under different descriptions,
\* a holding it twice, and b holding an edge a has not.
C10_Witness ==
    /\ cCall.op = "intersect" /\ cCall.status = "ok"
    /\ Len(result.relationships) = 1
    /\ Len(ArgA.relationships) = 2
    /\ Cardinality(EdgePairs(ArgA)) = 1
    /\ EdgePairs(ArgB) \ EdgePairs(ArgA) # {}
    /\ \A i \in DOMAIN ArgB.relationships :
          ArgB.relationships[i].description \notin
             {ArgA.relationships[j].description : j \in DOMAIN ArgA.relationships}


(***************************************************************************)
(* C11: subtract returns a concept whose ensemble names are exactly        *)
(* names(a) minus names(b), whose links are exactly a's links between two  *)
(* surviving ensembles with a's weights, and which has no relationships;   *)
(* the delta returned has empty added and removed lists.                   *)
(***************************************************************************)
C11_SubtractEnsemblesAndLinks ==
    cCall.op = "subtract" =>
        /\ cCall.status = "ok"
        /\ {e.name : e \in Range(EnsSeq(result))} =
              EnsembleNameSet(ArgA) \ EnsembleNameSet(ArgB)
        /\ NamedLinks(result) =
              {l \in NamedLinks(ArgA) :
                  /\ l[1] \notin EnsembleNameSet(ArgB)
                  /\ l[2] \notin EnsembleNameSet(ArgB)}
        /\ DanglingLinks(result) = {}
        /\ result.relationships = << >>
        /\ cCall.delta = [added |-> << >>, removed |-> << >>]


BoundEdge ==
    [relation_type |-> cCall'.relation_type,
     target_concept_id |-> pool[cCall'.b].concept_id,
     description |-> cCall'.description]
BoundTuple ==
    <<cCall'.relation_type, UuidStr(pool[cCall'.b].concept_id),
      cCall'.description>>

(***************************************************************************)
(* C13: bind_relation(a, b, T, d) appends exactly one edge (T, b's id, d)  *)
(* at the end of a's relationship list, also when an identical edge is     *)
(* there already, and returns the diff of a's edge list: removed is empty  *)
(* and added holds the tuple (T, b's id, d) exactly when no identical      *)
(* tuple was in a before the call.                                         *)
(***************************************************************************)
C13_BindAppendsAndDiffs ==
    [][cCall'.op = "bind_relation" =>
          /\ pool'[cCall'.a].relationships =
                Append(pool[cCall'.a].relationships, BoundEdge)
          /\ result' = pool'[cCall'.a]
          /\ cCall'.delta.removed = << >>
          /\ cCall'.delta.added =
                IF BoundTuple \in Range(ListRelations(pool[cCall'.a]))
                THEN << >> ELSE <<BoundTuple>>]_vars

\* A bind_relation that repeated an edge a already had: the list grew and
\* the delta reports nothing.
C13_Witness ==
    /\ cCall.op = "bind_relation"
    /\ cCall.delta.added = << >>
    /\ Len(ArgA.relationships) >= 2
    /\ \E i \in 1..(Len(ArgA.relationships) - 1) :
          ArgA.relationships[i] = ArgA.relationships[Len(ArgA.relationships)]


(***************************************************************************)
(* C14: the concept returned by merge(a, b) has exactly two relationship   *)
(* edges, MERGED_FROM -> a's id and then MERGED_FROM -> b's id, none of    *)
(* the operands' own edges; the delta returned lists exactly these two as  *)
(* added and nothing as removed.                                           *)
(***************************************************************************)
C14_MergedFromEdges ==
    (cCall.op = "merge" /\ cCall.status = "ok") =>
        /\ Len(result.relationships) = 2
        /\ result.relationships[1].relation_type = "MERGED_FROM"
        /\ result.relationships[1].target_concept_id = ArgA.concept_id
        /\ result.relationships[2].relation_type = "MERGED_FROM"
        /\ result.relationships[2].target_concept_id = ArgB.concept_id
        /\ Len(cCall.delta.added) = 2
        /\ \A i \in 1..2 :
              /\ cCall.delta.added[i][1] = "MERGED_FROM"
              /\ cCall.delta.added[i][2] =
                    UuidStr(result.relationships[i].target_concept_id)
              /\ cCall.delta.added[i][3] = result.relationships[i].description
        /\ cCall.delta.removed = << >>

\* A merge of two concepts that both have relationship edges of their own.
C14_Witness ==
    /\ cCall.op = "merge" /\ cCall.status = "ok"
    /\ Len(ArgA.relationships) = 2
    /\ Len(ArgB.relationships) >= 1
    /\ Len(result.relationships) = 2


(***************************************************************************)
(* C15: learn_hebbian(learning_rate, min_activation) with threshold thr    *)
(* (min_activation if given, else activation_threshold): for every         *)
(* ensemble e with activation >= thr and every other ensemble p with       *)
(* activation >= thr, the link e -> p grows by learning_rate times e's     *)
(* activation; no ensemble gains a link to itself; every other link is as  *)
(* before, and so are all links of an ensemble with activation < thr.      *)
(***************************************************************************)
C15_HebbianAmongCoactive ==
    cCall.op = "learn_hebbian" =>
        LET c0 == cCall.before
            c1 == pool[cCall.slot]
            thr == IF cCall.min_activation = NoneArg
                   THEN c0.activation_threshold ELSE cCall.min_activation
            active == {id \in EnsIds(c0) : RLe(thr, EnsById(c0, id).activation)}
        IN  /\ EnsIds(c1) = EnsIds(c0)
            /\ \A e \in active :
                  /\ \A p \in active \ {e} :
                        /\ DictHas(EnsById(c1, e).links, p)
                        /\ LinkWeight(c1, e, p) =
                              RAdd(LinkWeight(c0, e, p),
                                   RMul(cCall.learning_rate,
                                        EnsById(c0, e).activation))
                  /\ \A l \in Range(EnsById(c1, e).links) :
                        l[1] \notin active \ {e} =>
                           l \in Range(EnsById(c0, e).links)
                  /\ \A l \in Range(EnsById(c0, e).links) :
                        l[1] \notin active \ {e} =>
                           l \in Range(EnsById(c1, e).links)
                  /\ DictHas(EnsById(c1, e).links, e) =
                        DictHas(EnsById(c0, e).links, e)
            /\ \A e \in EnsIds(c0) \ active :
                  EnsById(c1, e).links = EnsById(c0, e).links

\* Two ensembles above the threshold with positive activation, and a third
\* below it that has a link to one of them.
C15_Witness ==
    /\ cCall.op = "learn_hebbian"
    /\ \E e, p, q \in EnsIds(cCall.before) :
          /\ e # p
          /\ RLt(RZero, EnsById(cCall.before, e).activation)
          /\ RLt(RZero, EnsById(cCall.before, p).activation)
          /\ RLt(LinkWeight(cCall.before, e, p), LinkWeight(pool[cCall.slot], e, p))
          /\ RLt(LinkWeight(cCall.before, p, e), LinkWeight(pool[cCall.slot], p, e))
          /\ RLt(EnsById(cCall.before, q).activation,
                 EnsById(cCall.before, p).activation)
          /\ DictHas(EnsById(cCall.before, q).links, e)
          /\ EnsById(pool[cCall.slot], q).links = EnsById(cCall.before, q).links


\* The sign of a rational.
RSign(p) == IF p[1] > 0 THEN 1 ELSE IF p[1] < 0 THEN -1 ELSE 0

(***************************************************************************)
(* C16: the lateral-inhibition stage of stimulate is a no-op when the sum  *)
(* of the positive activations is <= 1e-9 and otherwise divides every      *)
(* activation by 1 + inhibition_gain * total; whatever the concept state   *)
(* and the parameter value, it completes without a division by zero,       *)
(* never flips the sign of an activation and never turns a non-zero        *)
(* activation into zero.                                                   *)
(***************************************************************************)
C16_InhibitionSafe ==
    (cCall.op = "stimulate" /\ cCall.status # "KeyError") =>
        LET c == pool[cCall.slot]
            pos == [id \in EnsIds(c) |-> RMax(RZero, cCall.stage2[id])]
            total == RSum(pos, EnsIds(c))
            denom == RAdd(ROne, RMul(c.inhibition_gain, total))
        IN  /\ cCall.status = "ok"
            /\ denom # RZero
            /\ \A id \in EnsIds(c) :
                  /\ EnsById(c, id).activation =
                        IF LeTiny(total) THEN cCall.stage2[id]
                        ELSE RDiv(cCall.stage2[id], denom)
                  /\ RSign(EnsById(c, id).activation) = RSign(cCall.stage2[id])


\* The pairs that co-fired in the step just taken, by canonical key.
CoFired(fired) ==
    {PairKey(p[1], p[2]) : p \in {q \in fired \X fired : q[1] # q[2]}}

\* The weight of pair k after decay and pruning, 0 when absent or pruned.
DecayedOrZero(w, k) ==
    IF k \in DOMAIN w /\ ~RLt(RAbs(RMul(w[k], decay)), PruneBelow)
    THEN RMul(w[k], decay) ELSE RZero

(***************************************************************************)
(* C17: each activate_step first multiplies every weight by decay and      *)
(* removes those whose magnitude is then below 1e-6, and only then adds    *)
(* the Hebbian increment to each pair that co-fired in the step: a         *)
(* co-fired pair ends at min(decayed old weight (0 if absent or pruned) +  *)
(* increment, max_weight); a pair that did not co-fire ends at             *)
(* old * decay, or absent when that is below 1e-6.                         *)
(***************************************************************************)
C17_DecayThenHebbian ==
    [][rtCall'.op = "activate_step" =>
          /\ DOMAIN weights' \subseteq DOMAIN weights \cup CoFired(rtCall'.ret)
          /\ \A k \in CoFired(rtCall'.ret) :
                /\ k \in DOMAIN weights'
                /\ weights'[k] =
                      RMin(RAdd(DecayedOrZero(weights, k),
                                HebbIncrement(k[1], k[2])),
                           max_weight)
          /\ \A k \in DOMAIN weights \ CoFired(rtCall'.ret) :
                IF RLt(RAbs(RMul(weights[k], decay)), PruneBelow)
                THEN k \notin DOMAIN weights'
                ELSE /\ k \in DOMAIN weights'
                     /\ weights'[k] = RMul(weights[k], decay)]_vars

\* A step in which the pair co-fired on top of a weight it already had and
\* the sum was cut to max_weight.
C17_Witness ==
    /\ rtCall.op = "activate_step"
    /\ rtCall.ret = {"x", "y"}
    /\ now = MaxTime
    /\ registry = "UnitStore"
    /\ RLt(RZero, max_weight)
    /\ <<"x", "y">> \in DOMAIN weights /\ weights[<<"x", "y">>] = max_weight



\* Every weight is at most max_weight and, eta_hebb not being negative,
\* none is negative.
WeightsWithinCap ==
    \A k \in DOMAIN weights :
       /\ RLe(weights[k], max_weight)
       /\ RLe(RZero, eta_hebb) => RLe(RZero, weights[k])

(***************************************************************************)
(* C18, as stated: starting from an empty weight map, after any sequence   *)
(* of schedule_spike and activate_step calls every pairwise weight is at   *)
(* most max_weight and, with eta_hebb >= 0, no weight is negative.         *)
(***************************************************************************)
C18_WeightsBounded == WeightsWithinCap

(***************************************************************************)
(* C18, amended: the same for an instance whose max_weight is not          *)
(* negative (and whose decay lies in [0, 1]).                              *)
(***************************************************************************)
C18_WeightsBoundedNonNegativeCap ==
    (RLe(RZero, max_weight) /\ RLe(RZero, decay) /\ RLe(decay, ROne)) =>
        WeightsWithinCap

\* A weight that sits at a positive cap, and one that has decayed below it.
C18_Witness ==
    /\ RLt(RZero, max_weight)
    /\ <<"x", "y">> \in DOMAIN weights
    /\ \/ weights[<<"x", "y">>] = max_weight /\ rtCall.ret = {"x", "y"}
       \/ RLt(weights[<<"x", "y">>], eta_hebb) /\ rtCall.ret = {}
    /\ rtCall.op = "activate_step"
    /\ registry = "none"
    /\ now = MaxTime


(***************************************************************************)
(* C19: after any sequence of schedule_spike calls every stored strength   *)
(* lies in [0, 1] (a value below 0 stored as 0, one above 1 as 1), every   *)
(* key with a scheduled spike is a member of units, and the spikes         *)
(* scheduled at one timestamp, for the same key or for different keys,     *)
(* are all kept: each call adds one event at the end of its timestamp's    *)
(* list and changes no other event.                                        *)
(***************************************************************************)
C19_SpikesStoredClamped ==
    [][/\ \A ts \in DOMAIN scheduled' :
             \A e \in Range(scheduled'[ts]) :
                /\ RLe(RZero, e.s) /\ RLe(e.s, ROne)
                /\ e.key \in units'
       /\ rtCall'.op = "schedule_spike" =>
             \E tt \in DOMAIN scheduled' :
                /\ DOMAIN scheduled' = DOMAIN scheduled \cup {tt}
                /\ \A ts \in DOMAIN scheduled \ {tt} :
                      scheduled'[ts] = scheduled[ts]
                /\ Len(scheduled'[tt]) =
                      1 + (IF tt \in DOMAIN scheduled THEN Len(scheduled[tt])
                           ELSE 0)
                /\ tt \in DOMAIN scheduled =>
                      SubSeq(scheduled'[tt], 1, Len(scheduled[tt])) = scheduled[tt]
                /\ scheduled'[tt][Len(scheduled'[tt])].s \in {RZero, <<1, 2>>, ROne}]_vars

\* Two spikes at one timestamp for one key, stored with the strengths 0
\* (given below 0) and 1 (given above 1).
C19_Witness ==
    \E ts \in DOMAIN scheduled :
       /\ Len(scheduled[ts]) = 2
       /\ scheduled[ts][1].key = scheduled[ts][2].key
       /\ scheduled[ts][1].s = RZero
       /\ scheduled[ts][2].s = ROne

(***************************************************************************)
(* Reference notions the claim on to_vector is stated with.                *)
(***************************************************************************)
\* The places (timestamp, position) of the spikes still scheduled for key k
\* with t0 <= ts <= t1.
ScheduledPlaces(k, t0, t1) ==
    {p \in {<<ts, i>> : ts \in DOMAIN scheduled, i \in 1..MaxPatternSpikes} :
        /\ p[2] \in DOMAIN scheduled[p[1]]
        /\ scheduled[p[1]][p[2]].key = k
        /\ t0 <= p[1]
        /\ p[1] <= t1}

StrengthSum(k, t0, t1) ==
    LET places == ScheduledPlaces(k, t0, t1)
        s == [p \in places |-> scheduled[p[1]][p[2]].s]
    IN  RSum(s, places)

\* The membership as a list in ascending order.
SortedMembership ==
    CHOOSE q \in [1..Cardinality(units) -> units] :
        \A i, j \in DOMAIN q : i < j => KeyLess(q[i], q[j])

VectorOver(order) ==
    /\ Len(rtCall.ret) = Len(order)
    /\ \A i \in DOMAIN order :
          rtCall.ret[i] = StrengthSum(order[i], rtCall.window[1], rtCall.window[2])

NoFiredSpikeScheduled ==
    \A ts \in DOMAIN scheduled :
        \A i \in DOMAIN scheduled[ts] : fireCount[scheduled[ts][i].id] = 0

\* C20 as stated: to_vector(window=(t0, t1)) returns, per unit in the given
\* order, or in the sorted membership when none is given, the sum of the
\* strengths of the spikes still scheduled with t0 <= ts <= t1; a spike that
\* has fired is no longer scheduled and contributes nothing.
C20_ToVectorGivenOrder ==
    /\ NoFiredSpikeScheduled
    /\ rtCall.op = "to_vector" =>
          VectorOver(IF rtCall.unit_order.given
                     THEN rtCall.unit_order.keys
                     ELSE SortedMembership)

\* C20, amended: to_vector(window=(t0, t1)) returns, per unit in the given
\* order when a non-empty one is given, and in the sorted membership when
\* none or an empty one is given, the sum of the strengths of the spikes
\* still scheduled with t0 <= ts <= t1; a spike that has fired is no longer
\* scheduled and contributes nothing.
C20_ToVectorNonEmptyOrder ==
    /\ NoFiredSpikeScheduled
    /\ rtCall.op = "to_vector" =>
          VectorOver(IF rtCall.unit_order.given /\ rtCall.unit_order.keys # << >>
                     THEN rtCall.unit_order.keys
                     ELSE SortedMembership)

\* An empty order was given to an instance with units, a spike of y has
\* fired, and the vector over the whole time line holds only the spike of x
\* still scheduled.
C20_Witness ==
    /\ rtCall.op = "to_vector"
    /\ rtCall.unit_order = Order(<< >>)
    /\ rtCall.window = <<0, MaxTime>>
    /\ units = {"x", "y"}
    /\ \E i \in DOMAIN fireCount : fireCount[i] > 0
    /\ rtCall.ret = <<<<1, 2>>, RZero>>

(***************************************************************************)
(* Claims on the analysis of CellEnsembleRT.                               *)
(***************************************************************************)
\* C21: overlap_with is the Jaccard index of the two membership sets: 1 when
\* both are empty, 0 when they are disjoint and not both empty, 1 when they
\* are identical, |intersection| / |union| otherwise, and the same value
\* with the two ensembles exchanged.
C21_OverlapIsJaccard ==
    rtCall.op = "overlap_with" =>
        LET other == rtCall.other
            inter == Cardinality(units \cap other)
            union == Cardinality(units \cup other)
        IN  /\ (units = {} /\ other = {}) => rtCall.ret = ROne
            /\ (units \cap other = {} /\ union > 0) => rtCall.ret = RZero
            /\ units = other => rtCall.ret = ROne
            /\ union > 0 => RMul(rtCall.ret, RInt(union)) = RInt(inter)
            /\ rtCall.ret = rtCall.swapped

\* Two ensembles sharing one key of three: the overlap is 1/3.
C21_Witness ==
    /\ rtCall.op = "overlap_with"
    /\ units = {"x", "y"}
    /\ rtCall.other = {"y", "z"}
    /\ rtCall.ret = <<1, 3>>

(***************************************************************************)
(* Claims on decay.                                                        *)
(***************************************************************************)
\* c(f): the fraction clamped to [0, 1].
ClampedTo01(f) ==
    IF FLess(f, FZero) THEN FZero ELSE IF FLess(FOne, f) THEN FOne ELSE f
\* a * (1 - c(f)), and a * (1 - c(fs[1])) * ... * (1 - c(fs[n])).
Leak(a, f) == FMul(a, FSub(FOne, ClampedTo01(f)))
RECURSIVE LeakAll(_, _, _)
LeakAll(a, fs, n) == IF n = 0 THEN a ELSE Leak(LeakAll(a, fs, n - 1), fs[n])

\* |p - q| is at most 2^-50 of |p|: p and q agree up to the rounding of a
\* few multiplications.
FNear(p, q) ==
    LET d == FSub(p, q)
    IN  d.m = << >> \/ ~FMagLess([neg |-> FALSE, m |-> p.m, e |-> p.e - 50], d)

\* What a run of decay_all calls has made of every ensemble, with Same the
\* sense in which the last two calls give the same in the opposite order.
DecayComposes(Same(_, _)) ==
    cCall.op = "decay_all" =>
        LET fs == cCall.fractions
            n == Len(fs)
            before == EnsSeq(cCall.start)
            after == EnsSeq(pool[cCall.slot])
        IN  /\ DOMAIN after = DOMAIN before
            /\ \A i \in DOMAIN before :
                  LET a == before[i].activation
                      act == after[i].activation
                  IN  /\ after[i] = [before[i] EXCEPT !.activation = act]
                      /\ FEq(act, LeakAll(a, fs, n))
                      /\ FEq(fs[n], FZero) => FEq(act, LeakAll(a, fs, n - 1))
                      /\ ~FLess(fs[n], FOne) => FEq(act, FZero)
                      /\ n >= 2 =>
                            Same(act, Leak(Leak(LeakAll(a, fs, n - 2), fs[n]),
                                           fs[n - 1]))

\* C22 as stated: decay(f1) followed by decay(f2) on activation a yields
\* a * (1 - c(f1)) * (1 - c(f2)), c clamping the fraction to [0, 1], the
\* same as applying them in the opposite order; decay(0) leaves the
\* activation unchanged, decay(f) with f >= 1 sets it to 0, and decay_all
\* applies this to every ensemble.
C22_DecayComposesAndCommutes == DecayComposes(FEq)

\* C22, amended: as above, but the opposite order yields the same only up
\* to floating-point rounding (the two results may differ in their last
\* bits).
C22_DecayCommutesUpToRounding == DecayComposes(FNear)

\* decay_all(0.1) and then decay_all(0.2) on an ensemble of activation 0.3:
\* 0.21600000000000003, where the opposite order gives 0.216.
C22_Witness ==
    /\ cCall.op = "decay_all"
    /\ cCall.fractions = <<FFromRatio(1, 10), FFromRatio(1, 5)>>
    /\ EnsSeq(cCall.start)[1].activation = FFromRatio(3, 10)
    /\ EnsSeq(pool.A)[1].activation
          = FAdd(FFromRatio(216, 1000), [neg |-> FALSE, m |-> <<1>>, e |-> -55])
    /\ Leak(Leak(FFromRatio(3, 10), FFromRatio(1, 5)), FFromRatio(1, 10))
          = FFromRatio(216, 1000)

(***************************************************************************)
(* Claims on recall_partial.                                               *)
(***************************************************************************)
\* The number of ensembles that come before ensemble i when the ensembles
\* are put in non-increasing order of activation, equal ones in their
\* insertion order.
RecallRank(c, i) ==
    Cardinality({j \in DOMAIN EnsSeq(c) :
                    \/ RLt(EnsSeq(c)[i].activation, EnsSeq(c)[j].activation)
                    \/ /\ EnsSeq(c)[j].activation = EnsSeq(c)[i].activation
                       /\ j < i})

TopPairs(c, top_k, ret) ==
    /\ Len(ret) <= top_k
    /\ Len(ret) = top_k \/ Len(ret) = Len(EnsSeq(c))
    /\ \A i \in DOMAIN EnsSeq(c) :
          RecallRank(c, i) < Len(ret) =>
              ret[RecallRank(c, i) + 1]
                  = <<EnsSeq(c)[i].name, EnsSeq(c)[i].activation>>
    /\ \A r \in 1..(Len(ret) - 1) : RLe(ret[r + 1][2], ret[r][2])

\* C23 as stated: recall_partial(top_k) returns the top_k (name, activation)
\* pairs of the concept's ensembles in non-increasing order of activation,
\* ensembles of equal activation in their insertion order, and never more
\* than top_k pairs.
C23_RecallTopK ==
    cCall.op = "recall_partial" =>
        TopPairs(pool[cCall.slot], cCall.top_k, cCall.ret)

\* C23, amended: the same for top_k >= 0; a negative top_k returns the
\* sorted pairs without the last -top_k of them.
C23_RecallTopKNonNegative ==
    cCall.op = "recall_partial" =>
        LET c == pool[cCall.slot]
            n == Len(EnsSeq(c))
        IN  IF cCall.top_k >= 0
            THEN TopPairs(c, cCall.top_k, cCall.ret)
            ELSE TopPairs(c, IF n + cCall.top_k > 0 THEN n + cCall.top_k ELSE 0,
                          cCall.ret)

\* The top two of three ensembles after a stimulation; two of the three
\* have the same activation and appear in their insertion order.
C23_Witness ==
    /\ cCall.op = "recall_partial"
    /\ cCall.top_k = 2
    /\ Len(cCall.ret) = 2
    /\ \E i, j \in DOMAIN EnsSeq(pool.A) :
          /\ i < j
          /\ EnsSeq(pool.A)[i].activation = EnsSeq(pool.A)[j].activation
          /\ EnsSeq(pool.A)[i].activation # RZero
          /\ cCall.ret[1][1] = EnsSeq(pool.A)[i].name
          /\ cCall.ret[2][1] = EnsSeq(pool.A)[j].name

(***************************************************************************)
(* Claims on the cues of Concept.stimulate.                                *)
(***************************************************************************)
\* The cue fits the ensemble: its vector is not empty and as long as the
\* ensemble's.
CueFits(cue, e) == Len(cue[2]) > 0 /\ Len(cue[2]) = Len(e.vector)

\* The cues that name an ensemble of c and fit it.
FittingCues(c, cues) ==
    SelectSeq(cues, LAMBDA cue :
        \E i \in DOMAIN EnsSeq(c) :
            EnsSeq(c)[i].name = cue[1] /\ CueFits(cue, EnsSeq(c)[i]))

\* C24: in stage 1 of stimulate a cue whose name matches no ensemble is
\* skipped, a cue whose vector is empty or differs in length from the
\* ensemble's vector adds exactly 0, every ensemble not named in the cues
\* keeps its activation through stage 1, and such cues never make stimulate
\* fail: the call ends as it does without them.
C24_UnfitCuesAreSkipped ==
    cCall.op = "stimulate" =>
        LET c == cCall.before
            cues == cCall.cues
            without == StimulateOutcome(c, FittingCues(c, cues), cCall.gain)
        IN  /\ DOMAIN cCall.stage1 = EnsIds(c)
            /\ \A id \in EnsIds(c) :
                  LET e == EnsById(c, id)
                  IN  /\ (\A i \in DOMAIN cues : cues[i][1] # e.name)
                            => cCall.stage1[id] = e.activation
                      /\ \A i \in DOMAIN cues :
                            (cues[i][1] = e.name /\ ~CueFits(cues[i], e))
                                => cCall.stage1[id] = e.activation
            /\ cCall.stage1 = without.stage1
            /\ cCall.status = without.status
            /\ pool[cCall.slot] = without.c

\* A second stimulation, with an empty cue for x and a cue of another length
\* for y: the activations that the first one left are those of stage 1.
C24_Witness ==
    /\ cCall.op = "stimulate"
    /\ cCall.cues = <<<<"x", << >>>>, <<"y", <<0, 1, 0>>>>>>
    /\ \E id \in EnsIds(cCall.before) :
          /\ EnsById(cCall.before, id).name = "x"
          /\ EnsById(cCall.before, id).activation # RZero
          /\ cCall.stage1[id] = EnsById(cCall.before, id).activation

(***************************************************************************)
(* Claims on loading engrams.                                              *)
(***************************************************************************)
\* The keys the claim calls required, and the UUID texts.
RequiredKeyDamage ==
    {<<"drop", "concept", "concept_id">>, <<"drop", "concept", "name">>,
     <<"drop", "ensemble", "ensemble_id">>, <<"drop", "ensemble", "name">>,
     <<"drop", "relationship", "type">>,
     <<"drop", "relationship", "target_concept_id">>}
UuidDamage == {k \in DamageKinds : k[1] = "spoil"}

\* C25: from_engram fails with an error, and returns no concept, whenever
\* the engram lacks a required key (concept_id, name, an ensemble's
\* ensemble_id or name, a relationship's type or target_concept_id) or holds
\* a malformed UUID in concept_id, an ensemble_id, a link target or a
\* relationship target.
C25_DamagedEngramRejected ==
    [][(cCall'.op = "from_engram"
           /\ cCall'.kind \in RequiredKeyDamage \cup UuidDamage)
          => (cCall'.status \in {"KeyError", "ValueError"} /\ result' = result)]_vars

\* The same without the key "name" of the engram, which from_engram reads
\* with data.get("name", "").
C25_DamagedEngramRejectedButName ==
    [][(cCall'.op = "from_engram"
           /\ cCall'.kind \in (RequiredKeyDamage \cup UuidDamage)
                                  \ {<<"drop", "concept", "name">>})
          => (cCall'.status \in {"KeyError", "ValueError"} /\ result' = result)]_vars

\* An engram without the key "name" has been loaded into a concept.
C25_NamelessLoaded ==
    /\ cCall.op = "from_engram"
    /\ cCall.kind = <<"drop", "concept", "name">>
    /\ cCall.status = "ok"
    /\ result.name = ""
    /\ Len(EnsSeq(result)) > 0

(***************************************************************************)
(* Claims on diff_relations.                                               *)
(***************************************************************************)
\* x comes before y by type, then by target, then by description.
BeforeByTypeTargetDescription(x, y) ==
    LET kx == <<StrRank(x[1]), CHOOSE u \in UuidSpace : UuidStr(u) = x[2],
                StrRank(x[3])>>
        ky == <<StrRank(y[1]), CHOOSE u \in UuidSpace : UuidStr(u) = y[2],
                StrRank(y[3])>>
    IN  \E n \in 1..3 : kx[n] < ky[n] /\ \A m \in 1..(n - 1) : kx[m] = ky[m]

StrictlySorted(s) ==
    \A i \in 1..(Len(s) - 1) : BeforeByTypeTargetDescription(s[i], s[i + 1])

\* C26: diff_relations(before, after) returns added = the tuples in after
\* but not in before and removed = the tuples in before but not in after,
\* each without duplicates and sorted by (type, target, description); added
\* and removed are disjoint, and an edge whose description changed while
\* type and target stayed the same is one removal plus one addition.
C26_DiffRelations ==
    cCall.op = "diff_relations" =>
        LET before == Range(ListRelations(pool[cCall.a]))
            after == Range(ListRelations(pool[cCall.b]))
            added == cCall.delta.added
            removed == cCall.delta.removed
        IN  /\ Range(added) = after \ before
            /\ Range(removed) = before \ after
            /\ StrictlySorted(added)
            /\ StrictlySorted(removed)
            /\ Range(added) \cap Range(removed) = {}
            /\ \A x \in before \ after, y \in after \ before :
                  (x[1] = y[1] /\ x[2] = y[2] /\ x[3] # y[3])
                      => /\ Cardinality({i \in DOMAIN removed : removed[i] = x}) = 1
                         /\ Cardinality({i \in DOMAIN added : added[i] = y}) = 1

\* One concept holds an edge twice, the other the same edge with another
\* description and an edge of another type: one removal, two additions in
\* the order of their types.
C26_Witness ==
    /\ cCall.op = "diff_relations"
    /\ ListRelations(pool[cCall.a])
          = <<<<"IS_A", UuidStr(IdOther), "d1">>, <<"IS_A", UuidStr(IdOther), "d1">>>>
    /\ ListRelations(pool[cCall.b])
          = <<<<"IS_A", UuidStr(IdOther), "d2">>, <<"HAS", UuidStr(IdOther), "d1">>>>
    /\ cCall.delta.removed = <<<<"IS_A", UuidStr(IdOther), "d1">>>>
    /\ cCall.delta.added
          = <<<<"HAS", UuidStr(IdOther), "d1">>, <<"IS_A", UuidStr(IdOther), "d2">>>>

(***************************************************************************)
(* Claims on the blocks of a merged concept.  The first Len(EnsSeq(a))     *)
(* ensembles of the result are the copies of a's, in a's order, the rest   *)
(* the copies of b's, in b's order.                                        *)
(***************************************************************************)
\* The position in concept c of the ensemble with identity id, 0 if none.
PositionOf(c, id) ==
    IF id \in EnsIds(c)
    THEN CHOOSE i \in DOMAIN EnsSeq(c) : EnsSeq(c)[i].ensemble_id = id
    ELSE 0

\* Every link of the result's ensemble at position off + i goes to a result
\* ensemble at a position off + j of the same block, and the source's
\* ensemble i has a link of that weight to the source's ensemble j.
BlockLinksFromSource(r, src, off) ==
    \A i \in DOMAIN EnsSeq(src) :
       \A k \in DOMAIN EnsSeq(r)[off + i].links :
          LET link == EnsSeq(r)[off + i].links[k]
              j == PositionOf(r, link[1]) - off
          IN  /\ j \in DOMAIN EnsSeq(src)
              /\ \E m \in DOMAIN EnsSeq(src)[i].links :
                    /\ EnsSeq(src)[i].links[m][1] = EnsSeq(src)[j].ensemble_id
                    /\ EnsSeq(src)[i].links[m][2] = link[2]

\* The copy of b's ensemble i carries the suffix exactly when its name is
\* that of an ensemble copied before it.
RenamedOnCollisionOnly(r, a, b) ==
    \A i \in DOMAIN EnsSeq(b) :
       LET copied == {EnsSeq(r)[j].name : j \in 1..(Len(EnsSeq(a)) + i - 1)}
           name == EnsSeq(b)[i].name
       IN  EnsSeq(r)[Len(EnsSeq(a)) + i].name
              = IF name \in copied THEN name \o "__B" ELSE name

MergedBlocks(Applies(_, _)) ==
    (cCall.op = "merge" /\ cCall.status = "ok"
        /\ Applies(pool[cCall.a], pool[cCall.b])) =>
        LET a == pool[cCall.a]
            b == pool[cCall.b]
        IN  /\ Len(EnsSeq(result)) = Len(EnsSeq(a)) + Len(EnsSeq(b))
            /\ RenamedOnCollisionOnly(result, a, b)
            /\ BlockLinksFromSource(result, a, 0)
            /\ BlockLinksFromSource(result, b, Len(EnsSeq(a)))

\* The names of the ensembles of c are a set: no two ensembles share one.
NamesDistinct(c) ==
    \A i, j \in DOMAIN EnsSeq(c) :
       EnsSeq(c)[i].name = EnsSeq(c)[j].name => i = j
AnyNameSets(a, b) == NamesDistinct(a) /\ NamesDistinct(b)
\* No ensemble of a or of b bears the name a renamed copy of an ensemble
\* of b gets.
NoSuffixedName(a, b) ==
    /\ AnyNameSets(a, b)
    /\ \A j \in DOMAIN EnsSeq(b) :
          /\ \A i \in DOMAIN EnsSeq(a) :
                EnsSeq(a)[i].name # EnsSeq(b)[j].name \o "__B"
          /\ \A i \in DOMAIN EnsSeq(b) :
                EnsSeq(b)[i].name # EnsSeq(b)[j].name \o "__B"

\* C27: in merge_concepts(a, b) a copy of an ensemble of b is renamed with
\* the suffix __B only when its name collides with a name copied before it,
\* and the copying of links creates no link its source block did not have:
\* a copy of an ensemble of a gets no link a did not give it, and no link
\* joins a copy from a with a copy from b.  This holds for every set of
\* names, a name of a that ends in __B included.
C27_MergeKeepsBlocksApart == MergedBlocks(AnyNameSets)

\* The same when no name of a or of b is the renamed name of an ensemble
\* of b.
C27_MergeKeepsBlocksApartUnsuffixed == MergedBlocks(NoSuffixedName)

\* Concept a holds x and x__B with a link from x to x__B, b holds x: the
\* copy of a's x ends up linked to the copy of b's x.
C27_LinkAcrossBlocks ==
    /\ cCall.op = "merge" /\ cCall.status = "ok"
    /\ AnyNameSets(pool[cCall.a], pool[cCall.b])
    /\ \E i \in DOMAIN EnsSeq(pool[cCall.a]) :
          \E k \in DOMAIN EnsSeq(result)[i].links :
             PositionOf(result, EnsSeq(result)[i].links[k][1])
                > Len(EnsSeq(pool[cCall.a]))

(***************************************************************************)
(* Claims on the identities in the result of an operation of the algebra.  *)
(***************************************************************************)
\* The identities the links of the ensembles of c point to.
LinkTargets(c) ==
    UNION {{EnsSeq(c)[i].links[k][1] : k \in DOMAIN EnsSeq(c)[i].links} :
              i \in DOMAIN EnsSeq(c)}

\* C28: in the concept returned by merge_concepts, intersect_concepts or
\* subtract_concepts every link target is the identity of an ensemble of
\* that concept, and no ensemble of it has the identity of an ensemble of
\* an input concept.
C28_ResultRefersToItself ==
    (cCall.op \in AlgebraOps /\ cCall.status = "ok") =>
        /\ LinkTargets(result) \subseteq EnsIds(result)
        /\ EnsIds(result) \cap (EnsIds(pool["A"]) \cup EnsIds(pool["B"])) = {}

\* An intersection that kept two ensembles and the link between them.
C28_Witness ==
    /\ cCall.op = "intersect" /\ cCall.status = "ok"
    /\ Len(EnsSeq(result)) = 2
    /\ LinkTargets(pool[cCall.a]) # {}
    /\ LinkTargets(result) # {}
    /\ LinkTargets(result) \cap LinkTargets(pool[cCall.a]) = {}

(***************************************************************************)
(* Claims on the keys of the weight map.                                   *)
(***************************************************************************)
\* Every key of w is a pair (x, y) of two members of units with x < y, and
\* no pair of units has an entry under both of its orders.
KeysCanonical(w, u) ==
    /\ \A k \in DOMAIN w :
          /\ Len(k) = 2
          /\ k[1] \in u /\ k[2] \in u
          /\ k[1] # k[2]
          /\ KeyLess(k[1], k[2])
    /\ \A k \in DOMAIN w : <<k[2], k[1]>> \notin DOMAIN w

\* C29: each key of the weight map is an ordered pair (x, y) with x < y of
\* two distinct members of units, so that an unordered pair has at most one
\* entry; and a pair that co-fired in a step gets exactly one increment in
\* that step, however many spikes of its two units the step fired.
C29_WeightKeysCanonical ==
    [][/\ KeysCanonical(weights', units')
       /\ rtCall'.op = "activate_step" =>
             \A k \in CoFired(rtCall'.ret) :
                /\ k \in DOMAIN weights'
                /\ weights'[k] =
                      RMin(RAdd(DecayedOrZero(weights, k),
                                HebbIncrement(k[1], k[2])),
                           max_weight)]_vars

\* The first step that fires anything fires two spikes of y and one of x,
\* y scheduled first: one entry, under (x, y), holding one increment.
C29_Witness ==
    /\ rtCall.op = "activate_step"
    /\ rtCall.ret = {"x", "y"}
    /\ now = rtCall.dt
    /\ Cardinality({i \in DOMAIN fireCount : fireCount[i] = 1}) >= 3
    /\ DOMAIN weights = {<<"x", "y">>}
    /\ weights[<<"x", "y">>] = HebbIncrement("x", "y")

(***************************************************************************)
(* Claims on the spikes whose timestamp is the time a step begins at.      *)
(***************************************************************************)
\* C30: whenever an activate_step begins at current time t0, no spike with
\* timestamp exactly t0 is in the schedule any more, the step that ended at
\* t0 having fired it; this holds for every interleaving of schedule_spike
\* and activate_step, a spike scheduled at the initial time 0 and a spike
\* scheduled at the current time included.
C30_NoSpikeAtStepStart ==
    [][rtCall'.op = "activate_step" => now \notin DOMAIN scheduled]_vars

\* The same for the spikes that were scheduled ahead of the current time:
\* none of them is in the schedule once the time has reached its timestamp.
C30_SpikesAheadAreGone ==
    \A ts \in DOMAIN scheduled : ts > now

\* A spike scheduled at time 0 is still in the schedule, unfired, after the
\* instance has been stepped to the last time.
C30_SpikeAtZeroLeftBehind ==
    /\ rtCall.op = "activate_step"
    /\ now = MaxTime
    /\ 0 \in DOMAIN scheduled
    /\ \A i \in DOMAIN fireCount : fireCount[i] = 0

(***************************************************************************)
(* Claims on the containers of distinct instances.                         *)
(***************************************************************************)
\* The containers of an instance.
RefsOf(inst) ==
    {inst.metadata, inst.ensembles_by_id, inst.ensembles_by_name,
     inst.relationships} \cup Range(inst.vector) \cup Range(inst.links)

\* The instances of slots s and t hold no container in common.
Apart(h, s, t) == RefsOf(h.roots[s]) \cap RefsOf(h.roots[t]) = {}

\* Within an instance the concept's containers and those of its ensembles
\* are all different objects.
OwnContainersDistinct(inst) ==
    Cardinality(RefsOf(inst)) = 4 + 2 * Len(inst.vector)

\* The step was a write through slot s and left what slot t reads as alone.
WriteLeavesAlone(s, t) ==
    (cCall'.op = "write" /\ cCall'.slot = s /\ t \in DOMAIN heap.roots)
        => ValueOf(heap', t) = ValueOf(heap, t)

\* C31: no mutable container is shared between two distinct instances: the
\* vector and link map of an ensemble and the metadata, ensemble maps and
\* relationship list of a concept are never the same object as those of
\* another ensemble or concept, a concept obtained by
\* from_engram(serialize_engram(c)) relative to c and a concept returned by
\* merge, intersect or subtract relative to its inputs included; so a write
\* to one instance never changes another.
C31_NoSharedContainer ==
    [][/\ \A s \in DOMAIN heap'.roots : OwnContainersDistinct(heap'.roots[s])
       /\ \A s, t \in DOMAIN heap'.roots : s # t => Apart(heap', s, t)
       /\ \A s, t \in {"A", "B", "L", "R"} :
             s # t => WriteLeavesAlone(s, t)]_vars

\* The same for the concept an operation of the algebra returned, relative
\* to every other instance.
C31_DerivedSharesNothing ==
    [][/\ \A s \in DOMAIN heap'.roots : OwnContainersDistinct(heap'.roots[s])
       /\ \A t \in DOMAIN heap'.roots \ {"R"} :
             "R" \in DOMAIN heap'.roots => Apart(heap', "R", t)
       /\ \A t \in {"A", "B", "L"} :
             WriteLeavesAlone("R", t) /\ WriteLeavesAlone(t, "R")]_vars

\* A write to the metadata of the concept loaded from the engram of A shows
\* in A: the two hold one dict.
C31_LoadedSharesWithSource ==
    /\ cCall.op = "write" /\ cCall.slot = "L" /\ cCall.kind = "metadata"
    /\ heap.roots["L"].metadata = heap.roots["A"].metadata
    /\ heap.roots["L"].vector = heap.roots["A"].vector
    /\ "note" \in DOMAIN ValueOf(heap, "A").metadata

(***************************************************************************)
(* Claims on the liveness of the spike schedule.                           *)
(***************************************************************************)
InSchedule(id) ==
    /\ id.ts \in DOMAIN scheduled
    /\ \E j \in DOMAIN scheduled[id.ts] : scheduled[id.ts][j].id = id
FiredAndGone(id) ==
    id \in DOMAIN fireCount /\ fireCount[id] = 1 /\ ~InSchedule(id)

\* C32: if activate_step is called repeatedly with dt > 0, every spike
\* scheduled with a timestamp strictly greater than the current time at the
\* moment it is scheduled is eventually fired, exactly once, and then no
\* longer appears in the schedule.  (No more than MaxSpikes spikes are ever
\* scheduled, so from some time on each of them has been fired and is gone.)
C32_ScheduledSpikeFires ==
    <>[](\A id \in DOMAIN fireCount : id.ahead => FiredAndGone(id))

\* C32, amended: such a spike is in the schedule, unfired, as long as the
\* current time is below its timestamp, and has been fired exactly once
\* and is gone from the schedule as soon as the current time has reached
\* its timestamp.
C32_FiredOnceTimeReached ==
    \A id \in DOMAIN fireCount :
       id.ahead =>
          IF FLess(now, id.ts)
          THEN fireCount[id] = 0 /\ InSchedule(id)
          ELSE FiredAndGone(id)

\* The spike at 1.5 was fired by a step that ended exactly at 1.5, the
\* spike at 2.0 ** 53 + 4 is still ahead.
C32_Witness ==
    /\ rtCall.op = "activate_step"
    /\ now = FFromRatio(3, 2)
    /\ \E id \in DOMAIN fireCount :
          id.ahead /\ id.ts = now /\ FiredAndGone(id)
    /\ \E id \in DOMAIN fireCount :
          id.ahead /\ id.ts = FBigEnd /\ InSchedule(id)

(***************************************************************************)
(* Claims on the decay of the weights to nothing.                          *)
(***************************************************************************)
\* The step just taken fired at least two units together.
CoFiredStep == rtCall.op = "activate_step" /\ Cardinality(rtCall.ret) >= 2

\* C33: decay runs on every activate_step, whether anything fires or not
\* and whether dt is 0 or not: with 0 < decay < 1 every weight of a pair
\* that does not co-fire in a step shrinks strictly in magnitude in that
\* step (or is pruned), and if from some step on no two units co-fire the
\* weight map eventually becomes empty and stays empty.
C33_WeightsDecayAway ==
    /\ [][rtCall'.op = "activate_step" =>
             \A k \in DOMAIN weights \ CoFired(rtCall'.ret) :
                k \in DOMAIN weights' =>
                   RLt(RAbs(weights'[k]), RAbs(weights[k]))]_vars
    /\ (<>[](~CoFiredStep) => <>[](weights = << >>))

\* Two spikes were fired together, nothing else was ever scheduled, and a
\* later step with dt = 0 that fired nothing left the weight map empty.
C33_Witness ==
    /\ RLt(RZero, decay) /\ RLt(decay, ROne)
    /\ rtCall.op = "activate_step" /\ rtCall.dt = 0 /\ rtCall.ret = {}
    /\ DOMAIN fireCount = {1, 2}
    /\ fireCount[1] = 1 /\ fireCount[2] = 1
    /\ weights = << >>


\* What stimulate, decay_all and learn_hebbian are said to leave alone.
\* c with the activations of its ensembles blanked, and with their links
\* blanked.
WithoutActivations(c) ==
    [c EXCEPT !.ensembles_by_id =
        [i \in DOMAIN @ |-> [@[i] EXCEPT !.activation = RZero]]]
WithoutLinks(c) ==
    [c EXCEPT !.ensembles_by_id =
        [i \in DOMAIN @ |-> [@[i] EXCEPT !.links = << >>]]]

\* C34: a stimulate call (returning or raising) and a decay_all call leave
\* the concept as it was but for the activations of its ensembles: link
\* weights, ensembles and their order, name index, relationships and
\* parameters are the same; a learn_hebbian call leaves it as it was but
\* for the link maps of its ensembles: the activations are the same; so
\* over any sequence of these calls the set of ensembles and the
\* relationship list of the concept never change.
C34_DynamicsFrame ==
    [][/\ cCall'.op \in {"stimulate", "decay_all"} =>
             WithoutActivations(pool'["A"]) = WithoutActivations(pool["A"])
       /\ cCall'.op = "learn_hebbian" =>
             WithoutLinks(pool'["A"]) = WithoutLinks(pool["A"])
       /\ EnsIds(pool'["A"]) = EnsIds(pool["A"])
       /\ pool'["A"].relationships = pool["A"].relationships
       /\ pool'["B"] = pool["B"]]_vars
\* A stimulate call that changed activations was followed by a
\* learn_hebbian call that changed a link map, on a concept with a
\* relationship.
C34_Witness ==
    /\ nCalls = 2
    /\ cCall.op = "learn_hebbian"
    /\ pool["A"] # cCall.before
    /\ \E i \in DOMAIN EnsSeq(pool["A"]) :
          RLt(RZero, EnsSeq(pool["A"])[i].activation)
    /\ Len(pool["A"].relationships) = 1

=============================================================================
